---- MODULE Spec2Model ----
(***************************************************************************)
(* Token lifecycle of the trip-planner backend's authentication service:   *)
(* AuthService (register, login, refreshToken, logout) over the            *)
(* user_access_tokens and users tables, with every database statement an   *)
(* atomic step so that concurrent requests interleave between statements.  *)
(***************************************************************************)
EXTENDS Integers, Sequences, FiniteSets, TLC

(* ----------------------------- bounds ---------------------------------- *)

\* Requests admitted in one behaviour, counted from the initial state.
MaxCalls == 2
\* Last second of the wall clock.
MaxTime == 1
\* Requests that may be in flight at once.
NumProcs == 2

Procs == 1..NumProcs
Usernames == {"john", "jane"}
\* Registrations use the first password; logins try both.
Passwords == {"Password1!", "Passw0rd#2"}
RegisterPasswords == {"Password1!"}
Devices == {"d1", "d2"}
\* "undefined" is the body field left out; "everything" is an unknown value.
LogoutTypes == {"current", "all_devices", "undefined", "everything"}

\* JWT_REFRESH_EXPIRES_IN, in seconds of the model's clock.
RefreshExpiresIn == 3
\* JWT_ACCESS_EXPIRES_IN, in seconds of the model's clock.
AccessExpiresIn == 1

(* ------------------------- secrets and hashes -------------------------- *)

Password(text) == [kind |-> "password", sub |-> 0, iat |-> 0, text |-> text]

NoToken == [kind |-> "none", sub |-> 0, iat |-> 0, text |-> ""]

\* jsonwebtoken: HS256 over header.payload, payload = {sub, username, iat, exp}.
\* The string is a function of the payload, the second it was signed in and
\* the secret: two tokens signed for one account in one second are equal.
signJwt(payload, kind, at) ==
    [kind |-> kind, sub |-> payload.sub, iat |-> at, text |-> ""]

generateRefreshToken(payload, at) ==
    [token |-> signJwt(payload, "refresh", at), expiresAt |-> at + RefreshExpiresIn]

\* bcrypt reads at most this many bytes of the secret.
BcryptKeyBytes == 72
\* "eyJhbGciOiJIUzI1NiIsInR5cCI6IkpXVCJ9." : the base64url header and the dot.
JwtHeaderChars == 37
\* Bytes of the JSON payload that the base64url characters left in the key carry.
PayloadBytesInKey == ((BcryptKeyBytes - JwtHeaderChars) * 6) \div 8
\* {"sub":" + id (>= 1) + ","username":" + username (>= 1) + ","iat": come
\* before the digits of iat.
MinIatOffset == 8 + 1 + 14 + 1 + 8
IatInKey == MinIatOffset < PayloadBytesInKey

BcryptKeyWhole(secret) == secret

\* What bcrypt.hash and bcrypt.compare see of a secret: its first 72 bytes.
\* A password of the model is shorter and is seen whole; of a JWT they hold
\* the header and the start of the payload, which names the account only.
BcryptKey(secret) ==
    IF secret.kind = "password"
    THEN secret
    ELSE [kind |-> "jwt", sub |-> secret.sub,
          iat |-> IF IatInKey THEN secret.iat ELSE 0, text |-> ""]

\* A buggy hash that is made of the empty string whatever it is given.
BcryptHashOfNothing(secret, salt) == [salt |-> salt, key |-> BcryptKey(NoToken)]

BcryptHash(secret, salt) == [salt |-> salt, key |-> BcryptKey(secret)]

BcryptCompare(secret, hash) == BcryptKey(secret) = hash.key

NoHash == [salt |-> 0, key |-> NoToken]

(* ------------------------------ accounts ------------------------------- *)

\* A nullable TIMESTAMP column: NULL, or a second of the clock.
NullDate == [isNull |-> TRUE, time |-> 0]

DateOf(time) == [isNull |-> FALSE, time |-> time]

\* increaseFailedLogin's two constants; the lock lasts 15 minutes.
MAX_ATTEMPTS == 5
LOCK_DURATION_MS == 15 * 60 * 1000

\* prisma.user.create: the row with the columns' defaults
\* (failedLoginAttempts DEFAULT 0, lockUntil NULL).
NewUser(id, username, passwordHash) ==
    [id |-> id, username |-> username, password |-> passwordHash,
     failedLoginAttempts |-> 0, lockUntil |-> NullDate]

(* ------------------------------ state ---------------------------------- *)

VARIABLES
    users,      \* table users: [id, username, password, failedLoginAttempts, lockUntil]
    rows,       \* table user_access_tokens: [id, userId, deviceId, tokenHash, expiresAt]
    now,        \* Date.now(), in seconds
    pc,         \* where each request stands
    req,        \* each request's arguments and locals
    res,        \* the outcome of the last request each slot finished
    issued,     \* refresh tokens returned to clients, with the pair they were issued for
    plain,      \* history: row id -> raw refresh token whose hash the row holds
    rotatedOut, \* history: <<userId, deviceId, token>> replaced by a refresh that presented it
    overwritten,\* history: <<userId, deviceId, token>> issued by one of two racing refreshes and
                \* replaced by the other, which read the row before the first wrote it
    loggedOut,  \* history: <<userId, deviceId>> whose row a logout removed and no login has put back
    calls,      \* requests admitted so far
    wrongLogins,\* history: username -> wrong-password logins since its last successful login
    loggedIn,   \* history: <<userId, deviceId, token>> of the logins that have succeeded
    config,     \* ConfigService: the four JWT_* values of the environment
    held,       \* the signed token a client holds, with what it was signed as
    verdict     \* what a passport strategy last answered for a presented token

vars == <<users, rows, now, pc, req, res, issued, plain, rotatedOut, overwritten,
          loggedOut, calls, wrongLogins, loggedIn, config, held, verdict>>

NoRow == [id |-> 0, userId |-> 0, deviceId |-> "", tokenHash |-> NoHash, expiresAt |-> 0]

\* The locals of a request in flight. replaced and lostTo are history: whether
\* this login deleted a row, and which operation deleted the row this refresh read.
NoReq == [op |-> "none", username |-> "", password |-> "", userId |-> 0,
          deviceId |-> "", token |-> NoToken, tokenRecord |-> NoRow,
          newToken |-> NoToken, expiresAt |-> 0,
          failedLoginAttempts |-> 0, lockUntil |-> NullDate,
          replaced |-> FALSE, lostTo |-> "nobody"]

\* What a finished request answered; note is history that tells its cases apart.
NoRes == [op |-> "none", outcome |-> "none", note |-> "", message |-> ""]

Outcome(op, outcome, note) ==
    [op |-> op, outcome |-> outcome, note |-> note, message |-> ""]

(* ------------------------------- errors -------------------------------- *)

\* A Nest HTTP exception: its class and the message it was made with.
Exception(type, message) == [type |-> type, message |-> message]

\* What the store's client throws: a PrismaClientKnownRequestError with a code.
StoreError(code) == Exception(code, "")

ConflictUsername == Exception("Conflict", "Username already exists")
\* A buggy answer that tells an unknown username apart.
LoginUserUnknown == Exception("NotFound", "User not found")

LoginUserNotFound == Exception("Unauthorized", "Invalid username or password")
LoginPasswordInvalid == Exception("Unauthorized", "Invalid username or password")
RefreshNoRecord == Exception("Unauthorized", "Invalid refresh token")
RefreshTokenInvalid == Exception("Unauthorized", "Invalid refresh token")
UserNotFound == Exception("NotFound", "User not found")
InvalidLogoutType ==
    Exception("BadRequest", "Invalid logout type. Allowed values: current, all_devices")
FailedToCreateUser == Exception("Internal", "Failed to create user")
FailedToRegister == Exception("Internal", "Failed to register user")

JwtConfigMissing == Exception("Internal", "JWT configuration is missing")

\* What a step throws when something under it fails: the store's client (the
\* database cannot be reached), getJwtConfig, jwtService.signAsync, bcrypt.hash.
FaultError(fault) ==
    CASE fault = "store" -> StoreError("P1001")
      [] fault = "config" -> JwtConfigMissing
      [] fault = "sign" -> Exception("Error", "sign")
      [] fault = "hash" -> Exception("Error", "hash")

\* A buggy translation that hides the uniqueness violation.
createErrorMasked(error) == FailedToCreateUser

\* UsersService.create's catch: P2002 becomes Conflict, the rest Internal.
createError(error) ==
    IF error.type = "P2002" THEN ConflictUsername ELSE FailedToCreateUser

\* A buggy catch that lets every error through as it came.
registerRethrow(error) == error

\* A buggy catch that wraps the ConflictException too.
registerCatchAll(error) == FailedToRegister

\* register's catch: a ConflictException is thrown again as it is, the rest
\* becomes "Failed to register user".
registerCatch(error) ==
    IF error.type = "Conflict" THEN error ELSE FailedToRegister

(* -------------------- configuration and signed tokens ------------------- *)

\* An environment value that is not set: configService.get returns undefined.
Unset == ""

\* A duration string of the environment: a count and a unit, "15m", "7d".
Duration(n, unit) == [n |-> n, unit |-> unit]

UnsetDuration == Duration(0, "")

NoError == Exception("none", "")

\* ms (2.1.3): the milliseconds a duration string stands for, undefined for
\* a string it cannot read.
ms(value) ==
    CASE value.unit = "ms" -> [isNumber |-> TRUE, value |-> value.n]
      [] value.unit = "s" -> [isNumber |-> TRUE, value |-> value.n * 1000]
      [] value.unit = "m" -> [isNumber |-> TRUE, value |-> value.n * 60 * 1000]
      [] OTHER -> [isNumber |-> FALSE, value |-> 0]

\* parseDuration: ms(value), a TypeError when that is not a number.
parseDuration(value) ==
    IF ~ms(value).isNumber
    THEN [error |-> Exception("TypeError", "Invalid duration format"), value |-> 0]
    ELSE [error |-> NoError, value |-> ms(value).value]

NoJwtConfig(error) ==
    [error |-> error, accessSecret |-> Unset, refreshSecret |-> Unset,
     accessExpiresMs |-> 0, refreshExpiresMs |-> 0]

\* AuthService.getJwtConfig: Internal when one of the four values is falsy;
\* parseDuration's TypeError passes through it (its own check of the two
\* parsed values comes after parseDuration has thrown). Nothing compares the
\* two secrets.
getJwtConfig(cfg) ==
    IF \/ cfg.JWT_ACCESS_SECRET = Unset
       \/ cfg.JWT_REFRESH_SECRET = Unset
       \/ cfg.JWT_ACCESS_EXPIRES_IN = UnsetDuration
       \/ cfg.JWT_REFRESH_EXPIRES_IN = UnsetDuration
    THEN NoJwtConfig(JwtConfigMissing)
    ELSE LET accessExpiresMs == parseDuration(cfg.JWT_ACCESS_EXPIRES_IN)
             refreshExpiresMs == parseDuration(cfg.JWT_REFRESH_EXPIRES_IN)
         IN  IF accessExpiresMs.error # NoError
             THEN NoJwtConfig(accessExpiresMs.error)
             ELSE IF refreshExpiresMs.error # NoError
                  THEN NoJwtConfig(refreshExpiresMs.error)
                  ELSE [error |-> NoError,
                        accessSecret |-> cfg.JWT_ACCESS_SECRET,
                        refreshSecret |-> cfg.JWT_REFRESH_SECRET,
                        accessExpiresMs |-> accessExpiresMs.value,
                        refreshExpiresMs |-> refreshExpiresMs.value]

\* jwtService.signAsync: the payload with iat and exp = iat + expiresIn, under
\* an HS256 signature that only the secret it was made with verifies.
signAsync(payload, options, at) ==
    [sub |-> payload.sub, username |-> payload.username,
     iat |-> at, exp |-> at + options.expiresIn, secret |-> options.secret]

NoJwt == [sub |-> 0, username |-> "", iat |-> 0, exp |-> 0, secret |-> Unset]

\* generateAccessToken for a configuration getJwtConfig has returned.
generateAccessToken(payload, jwtConfig, at) ==
    signAsync(payload, [secret |-> jwtConfig.accessSecret,
                        expiresIn |-> jwtConfig.accessExpiresMs \div 1000], at)

\* A buggy signing that rounds the lifetime up to whole seconds.
signRefreshTokenRoundedUp(payload, jwtConfig, at) ==
    signAsync(payload, [secret |-> jwtConfig.refreshSecret,
                        expiresIn |-> (jwtConfig.refreshExpiresMs + 999) \div 1000], at)

\* generateRefreshToken's signJwt for a configuration getJwtConfig has returned.
signRefreshToken(payload, jwtConfig, at) ==
    signAsync(payload, [secret |-> jwtConfig.refreshSecret,
                        expiresIn |-> jwtConfig.refreshExpiresMs \div 1000], at)

NoPayload == [sub |-> 0, username |-> ""]

\* The column expiresAt TIMESTAMP(0): a time in milliseconds is kept to the
\* whole second, cut or rounded as the database server does it.
TimestampModes == {"truncate", "round"}
timestamp0(millis, mode) ==
    IF mode = "round" THEN (millis + 500) \div 1000 ELSE millis \div 1000

\* A buggy verification that never looks at exp.
verifyIgnoringExpiration(token, secretOrKey, at) ==
    IF token.secret # secretOrKey
    THEN [ok |-> FALSE, error |-> "invalid signature", payload |-> NoPayload]
    ELSE [ok |-> TRUE, error |-> "",
          payload |-> [sub |-> token.sub, username |-> token.username]]

\* passport-jwt's jsonwebtoken.verify(token, secretOrKey): the signature, then
\* exp against the clock (expired from the second exp on).
verify(token, secretOrKey, at) ==
    IF token.secret # secretOrKey
    THEN [ok |-> FALSE, error |-> "invalid signature", payload |-> NoPayload]
    ELSE IF at >= token.exp
         THEN [ok |-> FALSE, error |-> "jwt expired", payload |-> NoPayload]
         ELSE [ok |-> TRUE, error |-> "",
               payload |-> [sub |-> token.sub, username |-> token.username]]

\* A strategy's validate: a verified payload without sub is refused.
validate(verified) ==
    IF verified.ok /\ verified.payload.sub = 0
    THEN [ok |-> FALSE, error |-> "Unauthorized", payload |-> NoPayload]
    ELSE verified

\* JwtAccessStrategy: secretOrKey is JWT_ACCESS_SECRET.
JwtAccessStrategy(token, cfg, at) == validate(verify(token, cfg.JWT_ACCESS_SECRET, at))

\* JwtRefreshStrategy: secretOrKey is JWT_REFRESH_SECRET.
JwtRefreshStrategy(token, cfg, at) == validate(verify(token, cfg.JWT_REFRESH_SECRET, at))

\* The strategies' constructors: the application starts only with both secrets set.
StrategiesConstructed(cfg) ==
    cfg.JWT_ACCESS_SECRET # Unset /\ cfg.JWT_REFRESH_SECRET # Unset

(* --------------------------- the two stores ---------------------------- *)

RowsOf(rs, userId, deviceId) ==
    {r \in rs : r.userId = userId /\ r.deviceId = deviceId}

\* A random salt: any value that no hash the system holds carries.
SaltsInUse ==
    {r.tokenHash.salt : r \in rows} \cup {u.password.salt : u \in users}
        \cup {req[p].tokenRecord.tokenHash.salt : p \in Procs}
FreshSalt == CHOOSE n \in 1..(Cardinality(SaltsInUse) + 1) : n \notin SaltsInUse

\* A generated primary key: any value no row and no request in flight holds.
IdsInUse == {r.id : r \in rows} \cup {req[p].tokenRecord.id : p \in Procs}
FreshRowId == CHOOSE n \in 1..(Cardinality(IdsInUse) + 1) : n \notin IdsInUse

FreshUserId == Cardinality(users) + 1

UniqueIndexOff(rs, userId, deviceId) == FALSE

\* user_access_tokens_userId_deviceId_key: an insert for a pair that has a row fails (P2002).
UniqueViolation(rs, userId, deviceId) == RowsOf(rs, userId, deviceId) # {}

\* A buggy insert that never reaches the table.
createDropped(rs, row) == rs

\* A buggy insert that keys every row to one device.
createOnOneDevice(rs, row) == rs \cup {[row EXCEPT !.deviceId = "d1"]}

\* AuthRepository.create: prisma.userAccessToken.create.
create(rs, row) == rs \cup {row}

\* A buggy lookup that forgets the device.
findByUserOnly(rs, userId, deviceId) ==
    IF {r \in rs : r.userId = userId} = {}
    THEN NoRow
    ELSE CHOOSE r \in rs : r.userId = userId

\* AuthRepository.findByUserAndDevice: findFirst, or null.
findByUserAndDevice(rs, userId, deviceId) ==
    IF RowsOf(rs, userId, deviceId) = {}
    THEN NoRow
    ELSE CHOOSE r \in RowsOf(rs, userId, deviceId) : TRUE

\* A buggy delete that forgets the device.
deleteByUserOnly(rs, userId, deviceId) == {r \in rs : r.userId # userId}

\* AuthRepository.deleteTokenByUserAndDevice: deleteMany where userId and deviceId.
deleteTokenByUserAndDevice(rs, userId, deviceId) ==
    {r \in rs : ~(r.userId = userId /\ r.deviceId = deviceId)}

\* A buggy delete whose filter is empty.
deleteEveryToken(rs, userId) == {}

\* A buggy delete that removes one row of the account at a time.
deleteOneTokenOfUser(rs, userId) ==
    IF {r \in rs : r.userId = userId} = {}
    THEN rs
    ELSE rs \ {CHOOSE r \in rs : r.userId = userId}

\* AuthRepository.deleteAllTokenUser: deleteMany where userId.
deleteAllTokenUser(rs, userId) == {r \in rs : r.userId # userId}

\* AuthRepository.updateRefreshToken: update where id; the row must exist (else P2025).
updateRefreshToken(rs, tokenId, tokenHash, expiresAt) ==
    {IF r.id = tokenId
     THEN [r EXCEPT !.tokenHash = tokenHash, !.expiresAt = expiresAt]
     ELSE r : r \in rs}

\* A buggy rotation that writes the row back when it is gone.
rotateUpsert(rs, tokenRecord, tokenHash, expiresAt) ==
    [failed |-> FALSE,
     rows |-> {r \in rs : r.id # tokenRecord.id} \cup
              {[tokenRecord EXCEPT !.tokenHash = tokenHash, !.expiresAt = expiresAt]}]

\* A buggy rotation that replaces the row by a new one.
rotateByReplace(rs, tokenRecord, tokenHash, expiresAt) ==
    [failed |-> tokenRecord.id \notin {r.id : r \in rs},
     rows |-> IF tokenRecord.id \notin {r.id : r \in rs}
              THEN rs
              ELSE {r \in rs : r.id # tokenRecord.id} \cup
                   {[tokenRecord EXCEPT !.id = FreshRowId,
                        !.tokenHash = tokenHash, !.expiresAt = expiresAt]}]

\* refreshToken's write: updateRefreshToken(tokenRecord.id, ...). Prisma's update
\* throws P2025 when no row has the id and writes nothing.
rotate(rs, tokenRecord, tokenHash, expiresAt) ==
    [failed |-> tokenRecord.id \notin {r.id : r \in rs},
     rows |-> IF tokenRecord.id \notin {r.id : r \in rs}
              THEN rs
              ELSE updateRefreshToken(rs, tokenRecord.id, tokenHash, expiresAt)]

\* A buggy lookup that finds nobody.
findNobody(us, username) == {}

\* UsersRepository.findByUsername: findUnique where username.
findByUsername(us, username) == {u \in us : u.username = username}

\* The unique index on users.username: an insert of a name that a row holds
\* fails (P2002).
UsernameTaken(us, username) == \E u \in us : u.username = username

findById(us, userId) == {u \in us : u.id = userId}

\* A foreign key that lets the rows of a deleted account stay.
onDeleteNoAction(rs, userId) == rs

\* user_access_tokens_userId_fkey, ON DELETE CASCADE: what is left of the
\* table once the account userId is deleted.
onDeleteCascade(rs, userId) == {r \in rs : r.userId # userId}

\* A buggy update that never writes lockUntil.
updateWithoutLock(us, userId, payload) ==
    {IF u.id = userId
     THEN [f \in DOMAIN u |->
              IF f \in DOMAIN payload /\ f # "lockUntil" THEN payload[f] ELSE u[f]]
     ELSE u : u \in us}

\* UsersRepository.update's spreads: password, passwordChangedAt and
\* lastLoginAt enter the data when the payload's value is truthy (a null date
\* and the empty password, NoHash, are not); failedLoginAttempts, lockUntil,
\* isActive and deletedAt enter it when the value is not undefined.
Supplied(payload, f) ==
    /\ f \in DOMAIN payload
    /\ f \in {"passwordChangedAt", "lastLoginAt"} => ~payload[f].isNull
    /\ f = "password" => payload[f] # NoHash

\* UsersRepository.update: prisma.user.update where id, with the data the
\* spreads have built; a column the data leaves out is kept. The row must
\* exist (else P2025).
update(us, userId, payload) ==
    {IF u.id = userId
     THEN [f \in DOMAIN u |-> IF Supplied(payload, f) THEN payload[f] ELSE u[f]]
     ELSE u : u \in us}

\* A buggy check that still refuses in the second the lock ends.
ensureAccountNotLockedInclusive(user, at) ==
    ~(~user.lockUntil.isNull /\ user.lockUntil.time >= at)

\* UsersService.ensureAccountNotLocked: TRUE when it returns, FALSE when it
\* throws Forbidden.
ensureAccountNotLocked(user, at) ==
    ~(~user.lockUntil.isNull /\ user.lockUntil.time > at)

(* ------------------------------- Init ---------------------------------- *)

\* The environment the service is deployed with: two secrets that differ and
\* two durations that ms reads.
DefaultConfig ==
    [JWT_ACCESS_SECRET |-> "s1", JWT_REFRESH_SECRET |-> "s2",
     JWT_ACCESS_EXPIRES_IN |-> Duration(AccessExpiresIn, "s"),
     JWT_REFRESH_EXPIRES_IN |-> Duration(RefreshExpiresIn, "s")]

NoHeld == [signedAs |-> "none", payload |-> NoPayload, token |-> NoJwt]

NoVerdict == [strategy |-> "none", presented |-> NoHeld, at |-> 0, ok |-> FALSE,
              error |-> "", payload |-> NoPayload]

\* No client holds a signed token and no strategy has answered yet.
NoTokens == held = NoHeld /\ verdict = NoVerdict

Configured == config = DefaultConfig /\ NoTokens

\* The empty store.
ColdStore ==
    /\ users = {}
    /\ rows = {}
    /\ now = 0
    /\ pc = [p \in Procs |-> "idle"]
    /\ req = [p \in Procs |-> NoReq]
    /\ res = [p \in Procs |-> NoRes]
    /\ issued = {}
    /\ plain = {}
    /\ rotatedOut = {}
    /\ overwritten = {}
    /\ loggedOut = {}
    /\ calls = 0
    /\ wrongLogins = [u \in Usernames |-> 0]
    /\ loggedIn = {}

\* The empty store under the deployed environment.
InitCold == ColdStore /\ Configured

WarmToken(userId) == signJwt([sub |-> userId], "refresh", 0)

WarmRow(id, userId, deviceId, salt) ==
    [id |-> id, userId |-> userId, deviceId |-> deviceId,
     tokenHash |-> BcryptHash(WarmToken(userId), salt),
     expiresAt |-> RefreshExpiresIn]

\* The store after register(john, d1), register(jane, d1) and login(john, d2)
\* have run one after the other in second 0 and have answered.
WarmStore ==
    /\ users = {NewUser(1, "john", BcryptHash(Password("Password1!"), 1)),
                NewUser(2, "jane", BcryptHash(Password("Password1!"), 3))}
    /\ rows = {WarmRow(1, 1, "d1", 2), WarmRow(2, 2, "d1", 4), WarmRow(3, 1, "d2", 5)}
    /\ now = 0
    /\ pc = [p \in Procs |-> "idle"]
    /\ req = [p \in Procs |-> NoReq]
    /\ res = [p \in Procs |-> NoRes]
    /\ issued = {[token |-> WarmToken(1), deviceId |-> "d1"],
                 [token |-> WarmToken(2), deviceId |-> "d1"],
                 [token |-> WarmToken(1), deviceId |-> "d2"]}
    /\ plain = {<<1, WarmToken(1)>>, <<2, WarmToken(2)>>, <<3, WarmToken(1)>>}
    /\ rotatedOut = {}
    /\ overwritten = {}
    /\ loggedOut = {}
    /\ calls = 0
    /\ wrongLogins = [u \in Usernames |-> 0]
    /\ loggedIn = {}

\* The warm store under the deployed environment.
InitWarm == WarmStore /\ Configured

Init == InitCold \/ InitWarm

(* ------------------------------ helpers -------------------------------- *)

\* The request in slot p answers; its locals are dropped.
Finish(p, reqs, op, outcome, note) ==
    /\ pc' = [pc EXCEPT ![p] = "done"]
    /\ req' = [reqs EXCEPT ![p] = NoReq]
    /\ res' = [res EXCEPT ![p] = Outcome(op, outcome, note)]

\* The request in slot p ends with an exception; its locals are dropped.
Throw(p, reqs, op, error, note) ==
    /\ pc' = [pc EXCEPT ![p] = "done"]
    /\ req' = [reqs EXCEPT ![p] = NoReq]
    /\ res' = [res EXCEPT ![p] = [op |-> op, outcome |-> error.type, note |-> note,
                                  message |-> error.message]]

Goto(p, label) ==
    /\ pc' = [pc EXCEPT ![p] = label]
    /\ res' = [res EXCEPT ![p] = NoRes]

Free(p) == pc[p] \in {"idle", "done"}

\* A request arrives and takes a free slot; the slots are interchangeable, so
\* it takes the first. A finished request's outcome stays in its slot until then.
Admit(p) ==
    /\ Free(p)
    /\ \A q \in Procs : q < p => ~Free(q)
    /\ calls' = calls + 1

\* The history of raw tokens follows the rows that are left.
PlainFor(rs, entries) == {e \in entries : e[1] \in {r.id : r \in rs}}

\* History: the refresh requests whose row this statement removes note who did it.
NoteLost(rs, by) ==
    [q \in Procs |->
        IF /\ req[q].tokenRecord # NoRow
           /\ req[q].tokenRecord.id \in {r.id : r \in rows}
           /\ req[q].tokenRecord.id \notin {r.id : r \in rs}
        THEN [req[q] EXCEPT !.lostTo = by]
        ELSE req[q]]

(* ------------------------------ register ------------------------------- *)

\* register: usersService.ensureUsernameNotExists
RegisterCheck(p, username, password, deviceId) ==
    /\ Admit(p)
    /\ IF findByUsername(users, username) # {}
       THEN Throw(p, req, "register", registerCatch(ConflictUsername), "check")
       ELSE /\ req' = [req EXCEPT ![p] = [NoReq EXCEPT !.op = "register",
                          !.username = username, !.password = password,
                          !.deviceId = deviceId]]
            /\ Goto(p, "reg_create")
    /\ UNCHANGED <<users, rows, now, issued, plain, rotatedOut, overwritten, loggedOut, wrongLogins, loggedIn, config, held, verdict>>

\* register: bcrypt.hash(password), usersService.create (P2002 becomes Conflict)
RegisterCreate(p) ==
    /\ pc[p] = "reg_create"
    /\ IF UsernameTaken(users, req[p].username)
       THEN /\ Throw(p, req, "register",
                       registerCatch(createError(StoreError("P2002"))), "create")
            /\ UNCHANGED users
       ELSE /\ users' = users \cup
                  {NewUser(FreshUserId, req[p].username,
                           BcryptHash(Password(req[p].password), FreshSalt))}
            /\ req' = [req EXCEPT ![p].userId = FreshUserId]
            /\ Goto(p, "reg_store")
    /\ UNCHANGED <<rows, now, issued, plain, rotatedOut, overwritten, loggedOut, calls, wrongLogins, loggedIn, config, held, verdict>>

\* register: generateAccessToken and generateRefreshToken (getJwtConfig),
\* bcrypt.hash(refreshToken), authRepository.create; the catch turns a failed
\* getJwtConfig or insert into "Failed to register user"
RegisterStore(p) ==
    /\ pc[p] = "reg_store"
    /\ LET rt == generateRefreshToken([sub |-> req[p].userId], now)
           id == FreshRowId
           jwtConfig == getJwtConfig(config)
       IN  IF jwtConfig.error # NoError
           THEN /\ Throw(p, req, "register", registerCatch(jwtConfig.error), "config")
                /\ UNCHANGED <<rows, issued, plain>>
           ELSE IF UniqueViolation(rows, req[p].userId, req[p].deviceId)
           THEN /\ Throw(p, req, "register", registerCatch(StoreError("P2002")), "P2002")
                /\ UNCHANGED <<rows, issued, plain>>
           ELSE /\ rows' = create(rows,
                      [id |-> id, userId |-> req[p].userId,
                       deviceId |-> req[p].deviceId,
                       tokenHash |-> BcryptHash(rt.token, FreshSalt),
                       expiresAt |-> rt.expiresAt])
                /\ plain' = PlainFor(rows', plain \cup {<<id, rt.token>>})
                /\ issued' = issued \cup
                      {[token |-> rt.token, deviceId |-> req[p].deviceId]}
                /\ Finish(p, req, "register", "ok", "")
    /\ loggedOut' = {e \in loggedOut : RowsOf(rows', e[1], e[2]) = {}}
    /\ UNCHANGED <<users, now, rotatedOut, overwritten, calls, wrongLogins, loggedIn, config, held, verdict>>

\* register: ensureUsernameNotExists fails in the store
RegisterCheckFault(p, username, password, deviceId, fault) ==
    /\ Admit(p)
    /\ fault \in {"store"}
    /\ Throw(p, req, "register", registerCatch(FaultError(fault)), fault)
    /\ UNCHANGED <<users, rows, now, issued, plain, rotatedOut, overwritten, loggedOut, wrongLogins, loggedIn, config, held, verdict>>

\* register: bcrypt.hash(password) fails, or usersService.create fails with
\* another error than P2002
RegisterCreateFault(p, fault) ==
    /\ pc[p] = "reg_create"
    /\ fault \in {"hash", "store"}
    /\ Throw(p, req, "register",
             registerCatch(IF fault = "store"
                           THEN createError(FaultError(fault))
                           ELSE FaultError(fault)),
             fault)
    /\ UNCHANGED <<users, rows, now, issued, plain, rotatedOut, overwritten, loggedOut, calls, wrongLogins, loggedIn, config, held, verdict>>

\* register: generateAccessToken or generateRefreshToken fails (configuration,
\* signing), bcrypt.hash(refreshToken) fails, or authRepository.create fails;
\* the account that usersService.create wrote stays
RegisterStoreFault(p, fault) ==
    /\ pc[p] = "reg_store"
    /\ fault \in {"config", "sign", "hash", "store"}
    /\ Throw(p, req, "register", registerCatch(FaultError(fault)), fault)
    /\ UNCHANGED <<users, rows, now, issued, plain, rotatedOut, overwritten, loggedOut, calls, wrongLogins, loggedIn, config, held, verdict>>

(* -------------------------------- login -------------------------------- *)

\* A login that deletes the device's row before it has checked the password.
LoginDeleteFirst(p, username, password, deviceId) ==
    /\ Admit(p)
    /\ LET found == findByUsername(users, username)
       IN  IF found = {}
           THEN /\ Throw(p, req, "login", LoginUserNotFound, "username")
                /\ UNCHANGED <<rows, plain>>
           ELSE LET user == CHOOSE u \in found : TRUE
                    rt == generateRefreshToken([sub |-> user.id], now)
                    left == deleteTokenByUserAndDevice(rows, user.id, deviceId)
                IN  /\ rows' = left
                    /\ plain' = PlainFor(left, plain)
                    /\ IF ~BcryptCompare(Password(password), user.password)
                       THEN Throw(p, NoteLost(left, "login"), "login",
                                  LoginPasswordInvalid, "password")
                       ELSE /\ req' = [NoteLost(left, "login") EXCEPT ![p] =
                                   [NoReq EXCEPT !.op = "login", !.username = username,
                                       !.userId = user.id, !.deviceId = deviceId,
                                       !.newToken = rt.token,
                                       !.expiresAt = rt.expiresAt,
                                       !.replaced = (left # rows)]]
                            /\ Goto(p, "login_delete")
    /\ UNCHANGED <<users, now, issued, rotatedOut, overwritten, loggedOut, wrongLogins,
                   loggedIn, config, held, verdict>>

\* login: usersService.findByUsername, bcrypt.compare, generateAccessToken and
\* generateRefreshToken (getJwtConfig; nothing catches what it throws)
LoginFind(p, username, password, deviceId) ==
    /\ Admit(p)
    /\ LET found == findByUsername(users, username)
       IN  IF found = {}
           THEN Throw(p, req, "login", LoginUserNotFound, "username")
           ELSE LET user == CHOOSE u \in found : TRUE
                    rt == generateRefreshToken([sub |-> user.id], now)
                    jwtConfig == getJwtConfig(config)
                IN  IF ~BcryptCompare(Password(password), user.password)
                    THEN Throw(p, req, "login", LoginPasswordInvalid, "password")
                    ELSE IF jwtConfig.error # NoError
                    THEN Throw(p, req, "login", jwtConfig.error, "config")
                    ELSE /\ req' = [req EXCEPT ![p] =
                                [NoReq EXCEPT !.op = "login", !.username = username,
                                    !.userId = user.id, !.deviceId = deviceId,
                                    !.newToken = rt.token,
                                    !.expiresAt = rt.expiresAt]]
                         /\ Goto(p, "login_delete")
    /\ wrongLogins' =
          IF \E u \in findByUsername(users, username) :
                ~BcryptCompare(Password(password), u.password)
          THEN [wrongLogins EXCEPT ![username] = @ + 1]
          ELSE wrongLogins
    /\ UNCHANGED <<users, rows, now, issued, plain, rotatedOut, overwritten, loggedOut, loggedIn, config, held, verdict>>

\* login: authRepository.deleteTokenByUserAndDevice
LoginDelete(p) ==
    /\ pc[p] = "login_delete"
    /\ rows' = deleteTokenByUserAndDevice(rows, req[p].userId, req[p].deviceId)
    /\ plain' = PlainFor(rows', plain)
    /\ req' = [NoteLost(rows', "login") EXCEPT ![p].replaced = (rows' # rows)]
    /\ Goto(p, "login_create")
    /\ UNCHANGED <<users, now, issued, rotatedOut, overwritten, loggedOut, calls, wrongLogins, loggedIn, config, held, verdict>>

\* login: bcrypt.hash(refreshToken), authRepository.create; nothing catches a
\* failed insert, the store's error leaves login as it is
LoginCreate(p) ==
    /\ pc[p] = "login_create"
    /\ LET id == FreshRowId
       IN  IF UniqueViolation(rows, req[p].userId, req[p].deviceId)
           THEN /\ Throw(p, req, "login", StoreError("P2002"), "")
                /\ UNCHANGED <<rows, issued, plain>>
           ELSE /\ rows' = create(rows,
                      [id |-> id, userId |-> req[p].userId,
                       deviceId |-> req[p].deviceId,
                       tokenHash |-> BcryptHash(req[p].newToken, FreshSalt),
                       expiresAt |-> req[p].expiresAt])
                /\ plain' = PlainFor(rows', plain \cup {<<id, req[p].newToken>>})
                /\ issued' = issued \cup
                      {[token |-> req[p].newToken, deviceId |-> req[p].deviceId]}
                /\ Finish(p, req, "login", "ok",
                          IF req[p].replaced THEN "replaced" ELSE "first")
    /\ loggedOut' = {e \in loggedOut : RowsOf(rows', e[1], e[2]) = {}}
    /\ wrongLogins' = IF UniqueViolation(rows, req[p].userId, req[p].deviceId)
                      THEN wrongLogins
                      ELSE [wrongLogins EXCEPT ![req[p].username] = 0]
    /\ loggedIn' = IF UniqueViolation(rows, req[p].userId, req[p].deviceId)
                   THEN loggedIn
                   ELSE loggedIn \cup {<<req[p].userId, req[p].deviceId, req[p].newToken>>}
    /\ UNCHANGED <<users, now, rotatedOut, overwritten, calls, config, held, verdict>>

\* login: bcrypt.hash(refreshToken) or authRepository.create fails under it,
\* after deleteTokenByUserAndDevice has run; nothing catches the error and
\* nothing puts the deleted row back
LoginCreateFault(p, fault) ==
    /\ pc[p] = "login_create"
    /\ fault \in {"hash", "store"}
    /\ Throw(p, req, "login", FaultError(fault), fault)
    /\ UNCHANGED <<users, rows, now, issued, plain, rotatedOut, overwritten,
                   loggedOut, calls, wrongLogins, loggedIn, config, held, verdict>>

\* The account userId is deleted in the database (no handler of the service
\* does it); the foreign key takes its Device Token rows with it. The tokens
\* signed for it stay in their holders' hands.
DeleteAccount(userId) ==
    /\ findById(users, userId) # {}
    /\ users' = users \ findById(users, userId)
    /\ rows' = onDeleteCascade(rows, userId)
    /\ plain' = PlainFor(rows', plain)
    /\ req' = NoteLost(rows', "account deleted")
    /\ UNCHANGED <<now, pc, res, issued, rotatedOut, overwritten, loggedOut, calls,
                   wrongLogins, loggedIn, config, held, verdict>>

(* ----------------------------- refreshToken ---------------------------- *)

\* The refresh guard has verified the token: signed by this service for the
\* account token.sub and not expired. The device id is the client's header.
\* refreshToken: authRepository.findByUserAndDevice, bcrypt.compare
RefreshFind(p, token, deviceId) ==
    /\ Admit(p)
    /\ now < token.iat + RefreshExpiresIn
    /\ LET userId == token.sub
           tokenRecord == findByUserAndDevice(rows, userId, deviceId)
       IN  IF tokenRecord = NoRow
           THEN Throw(p, req, "refresh", RefreshNoRecord,
                      IF findById(users, userId) = {} THEN "no account"
                       ELSE IF <<userId, deviceId>> \in loggedOut
                       THEN "logged out" ELSE "no row")
           ELSE IF ~BcryptCompare(token, tokenRecord.tokenHash)
                THEN Throw(p, req, "refresh", RefreshTokenInvalid, "mismatch")
                ELSE /\ req' = [req EXCEPT ![p] =
                            [NoReq EXCEPT !.op = "refresh", !.userId = userId,
                                !.deviceId = deviceId, !.token = token,
                                !.tokenRecord = tokenRecord]]
                     /\ Goto(p, "ref_user")
    /\ UNCHANGED <<users, rows, now, issued, plain, rotatedOut, overwritten, loggedOut, wrongLogins, loggedIn, config, held, verdict>>

\* refreshToken: usersService.findUserBydId, then generateAccessToken
\* (getJwtConfig; nothing catches what it throws)
RefreshLoadUser(p) ==
    /\ pc[p] = "ref_user"
    /\ IF findById(users, req[p].userId) = {}
       THEN Throw(p, req, "refresh", UserNotFound, "")
       ELSE IF getJwtConfig(config).error # NoError
       THEN Throw(p, req, "refresh", getJwtConfig(config).error, "config")
       ELSE /\ Goto(p, "ref_update")
            /\ UNCHANGED req
    /\ UNCHANGED <<users, rows, now, issued, plain, rotatedOut, overwritten, loggedOut, calls, wrongLogins, loggedIn, config, held, verdict>>

\* refreshToken: generateRefreshToken, bcrypt.hash, authRepository.updateRefreshToken;
\* nothing catches a failed update
RefreshUpdate(p) ==
    /\ pc[p] = "ref_update"
    /\ LET rt == generateRefreshToken([sub |-> req[p].userId], now)
           tokenRecord == req[p].tokenRecord
           written == rotate(rows, tokenRecord,
                             BcryptHash(rt.token, FreshSalt), rt.expiresAt)
           before == {e[2] : e \in {e \in plain : e[1] = tokenRecord.id}}
           gone == {<<req[p].userId, req[p].deviceId, t>> : t \in before \ {rt.token}}
       IN  IF written.failed
           THEN /\ Throw(p, req, "refresh", StoreError("P2025"), req[p].lostTo)
                /\ UNCHANGED <<rows, issued, plain, rotatedOut, overwritten>>
           ELSE /\ rows' = written.rows
                /\ plain' = PlainFor(rows', {e \in plain : e[1] # tokenRecord.id})
                               \cup {<<r.id, rt.token>> : r \in written.rows \ rows}
                /\ rotatedOut' = rotatedOut \cup {g \in gone : g[3] = req[p].token}
                /\ overwritten' = overwritten \cup
                      {g \in gone : /\ g[3] # req[p].token
                                    /\ tokenRecord \notin rows
                                    /\ <<g[1], g[2], req[p].token>> \in rotatedOut}
                /\ issued' = issued \cup
                      {[token |-> rt.token, deviceId |-> req[p].deviceId]}
                /\ Finish(p, req, "refresh", "ok", req[p].lostTo)
    /\ UNCHANGED <<users, now, loggedOut, calls, wrongLogins, loggedIn, config, held, verdict>>

(* -------------------------------- logout ------------------------------- *)

\* A buggy check that lets every type through.
LogoutTypeNeverRejected(resolvedType) == FALSE

\* logout's check of the type it resolved.
LogoutTypeRejected(resolvedType) ==
    resolvedType # "current" /\ resolvedType # "all_devices"

\* The access guard has verified an access token of the account userId.
\* logout: type ?? "current", the type check, then deleteAllTokenUser or
\* deleteTokenByUserAndDevice
Logout(p, userId, deviceId, type) ==
    /\ Admit(p)
    /\ LET resolvedType == IF type = "undefined" THEN "current" ELSE type
           left == IF resolvedType = "all_devices"
                   THEN deleteAllTokenUser(rows, userId)
                   ELSE deleteTokenByUserAndDevice(rows, userId, deviceId)
       IN  IF LogoutTypeRejected(resolvedType)
           THEN /\ Throw(p, req, "logout", InvalidLogoutType, type)
                /\ UNCHANGED <<rows, plain, loggedOut>>
           ELSE /\ rows' = left
                /\ plain' = PlainFor(left, plain)
                /\ loggedOut' = loggedOut \cup
                      {<<r.userId, r.deviceId>> : r \in rows \ left}
                /\ Finish(p, NoteLost(left, "logout"), "logout", "ok", type)
    /\ UNCHANGED <<users, now, issued, rotatedOut, overwritten, wrongLogins, loggedIn, config, held, verdict>>

(* ---------------------- UsersService: the lockout ---------------------- *)

\* LOCK_DURATION_MS in seconds of the model's clock.
LockDuration == LOCK_DURATION_MS \div 1000

\* increaseFailedLogin: findUserById
IncreaseFind(p, userId) ==
    /\ Admit(p)
    /\ IF findById(users, userId) = {}
       THEN Throw(p, req, "increaseFailedLogin", UserNotFound, "")
       ELSE LET user == CHOOSE u \in findById(users, userId) : TRUE
            IN  /\ req' = [req EXCEPT ![p] =
                       [NoReq EXCEPT !.op = "increaseFailedLogin", !.userId = userId,
                           !.failedLoginAttempts = user.failedLoginAttempts,
                           !.lockUntil = user.lockUntil]]
                /\ Goto(p, "inc_update")
    /\ UNCHANGED <<users, rows, now, issued, plain, rotatedOut, overwritten, loggedOut, wrongLogins, loggedIn, config, held, verdict>>

\* increaseFailedLogin: the next count, the lock when it reaches MAX_ATTEMPTS,
\* usersRepository.update
IncreaseUpdate(p) ==
    /\ pc[p] = "inc_update"
    /\ LET nextFailedAttempts == req[p].failedLoginAttempts + 1
           lockUntil == IF nextFailedAttempts >= MAX_ATTEMPTS
                        THEN DateOf(now + LockDuration)
                        ELSE req[p].lockUntil
       IN  IF findById(users, req[p].userId) = {}
           THEN /\ Throw(p, req, "increaseFailedLogin", StoreError("P2025"), "")
                /\ UNCHANGED users
           ELSE /\ users' = update(users, req[p].userId,
                                   [failedLoginAttempts |-> nextFailedAttempts,
                                    lockUntil |-> lockUntil])
                /\ Finish(p, req, "increaseFailedLogin", "ok", "")
    /\ UNCHANGED <<rows, now, issued, plain, rotatedOut, overwritten, loggedOut, calls, wrongLogins, loggedIn, config, held, verdict>>

AccountLocked == Exception("Forbidden", "Account is temporarily locked")

\* ensureAccountNotLocked(user), called with the account of userId as the
\* store holds it
EnsureAccountNotLocked(p, userId) ==
    /\ Admit(p)
    /\ \E user \in findById(users, userId) :
          IF ensureAccountNotLocked(user, now)
          THEN Finish(p, req, "ensureAccountNotLocked", "ok", "")
          ELSE Throw(p, req, "ensureAccountNotLocked", AccountLocked, "")
    /\ UNCHANGED <<users, rows, now, issued, plain, rotatedOut, overwritten,
                   loggedOut, wrongLogins, loggedIn, config, held, verdict>>

\* usersRepository.update(userId, payload), called as it is
UpdateUser(p, userId, payload) ==
    /\ Admit(p)
    /\ IF findById(users, userId) = {}
       THEN /\ Throw(p, req, "update", StoreError("P2025"), "")
            /\ UNCHANGED users
       ELSE /\ users' = update(users, userId, payload)
            /\ Finish(p, req, "update", "ok", "")
    /\ UNCHANGED <<rows, now, issued, plain, rotatedOut, overwritten,
                   loggedOut, wrongLogins, loggedIn, config, held, verdict>>

\* resetFailedLogin: usersRepository.update
ResetFailedLogin(p, userId) ==
    /\ Admit(p)
    /\ IF findById(users, userId) = {}
       THEN /\ Throw(p, req, "resetFailedLogin", StoreError("P2025"), "")
            /\ UNCHANGED <<users, wrongLogins>>
       ELSE /\ users' = update(users, userId,
                               [failedLoginAttempts |-> 0, lockUntil |-> NullDate])
            /\ wrongLogins' =
                  [n \in Usernames |->
                      IF \E u \in findById(users, userId) : u.username = n
                      THEN 0 ELSE wrongLogins[n]]
            /\ Finish(p, req, "resetFailedLogin", "ok", "")
    /\ UNCHANGED <<rows, now, issued, plain, rotatedOut, overwritten, loggedOut, loggedIn, config, held, verdict>>

(* ------------------------- the HTTP pipeline --------------------------- *)

\* req.headers["x-device-id"]: undefined when the header is absent, a string,
\* or an array of strings.
Header(type, value) == [type |-> type, value |-> value]

HeaderRequired == Exception("BadRequest", "Header X-DEVICE-ID required")

\* What AuthGuard throws when its strategy does not verify the token.
GuardRefused == Exception("Unauthorized", "Unauthorized")

\* A buggy check that refuses only an absent header.
DeviceIdAbsent(deviceId) == deviceId.type = "undefined"

\* DeviceIdInterceptor.intercept: !deviceId || typeof deviceId !== "string".
DeviceIdRejected(deviceId) ==
    \/ deviceId.type = "undefined"
    \/ deviceId.type = "string" /\ deviceId.value = ""
    \/ deviceId.type # "string"

\* The pipeline answers before the handler is called.
Reject(p, op, error, note) ==
    /\ Admit(p)
    /\ Throw(p, req, op, error, note)
    /\ UNCHANGED <<users, rows, now, issued, plain, rotatedOut, overwritten,
                   loggedOut, wrongLogins, loggedIn, config, held, verdict>>

\* POST authentication/register: the global interceptor, then the handler
\* with @CurrentDevice() = req.deviceId.
HttpRegister(p, deviceId, username, password) ==
    IF DeviceIdRejected(deviceId)
    THEN Reject(p, "register", HeaderRequired, "device")
    ELSE RegisterCheck(p, username, password, deviceId.value)

\* POST authentication/login: the global interceptor, then the handler.
HttpLogin(p, deviceId, username, password) ==
    IF DeviceIdRejected(deviceId)
    THEN Reject(p, "login", HeaderRequired, "device")
    ELSE LoginFind(p, username, password, deviceId.value)

\* POST authentication/refresh-token: RefreshTokenGuard (a guard runs before
\* the interceptors), the global interceptor, then the handler.
HttpRefresh(p, deviceId, token) ==
    IF ~(token \in {e.token : e \in issued} /\ now < token.iat + RefreshExpiresIn)
    THEN Reject(p, "refresh", GuardRefused, "guard")
    ELSE IF DeviceIdRejected(deviceId)
         THEN Reject(p, "refresh", HeaderRequired, "device")
         ELSE RefreshFind(p, token, deviceId.value)

\* POST authentication/logout: AccessTokenGuard, the global interceptor, then
\* the handler. userId is the sub of the bearer token, 0 for a token the guard
\* does not verify.
HttpLogout(p, deviceId, userId, type) ==
    IF userId = 0
    THEN Reject(p, "logout", GuardRefused, "guard")
    ELSE IF DeviceIdRejected(deviceId)
         THEN Reject(p, "logout", HeaderRequired, "device")
         ELSE Logout(p, userId, deviceId.value, type)

(* ------------------ signing and the passport strategies ----------------- *)

\* The payload register, login and refreshToken sign for an account.
PayloadOf(user) == [sub |-> user.id, username |-> user.username]

\* generateAccessToken(payload): the client keeps the token.
SignAccess(payload) ==
    /\ getJwtConfig(config).error = NoError
    /\ held' = [signedAs |-> "access", payload |-> payload,
                token |-> generateAccessToken(payload, getJwtConfig(config), now)]
    /\ UNCHANGED <<users, rows, now, pc, req, res, issued, plain, rotatedOut,
                   overwritten, loggedOut, calls, wrongLogins, loggedIn, config, verdict>>

\* generateRefreshToken(payload): the client keeps the token.
SignRefresh(payload) ==
    /\ getJwtConfig(config).error = NoError
    /\ held' = [signedAs |-> "refresh", payload |-> payload,
                token |-> signRefreshToken(payload, getJwtConfig(config), now)]
    /\ UNCHANGED <<users, rows, now, pc, req, res, issued, plain, rotatedOut,
                   overwritten, loggedOut, calls, wrongLogins, loggedIn, config, verdict>>

\* generateRefreshToken(payload) on the millisecond clock: signJwt in second
\* now, then new Date(Date.now() + refreshExpiresMs) at dateNow, and the
\* column that keeps that date.
GenerateRefreshToken(payload, dateNow, mode) ==
    /\ getJwtConfig(config).error = NoError
    /\ dateNow >= now * 1000
    /\ LET jwtConfig == getJwtConfig(config)
           expiresAt == dateNow + jwtConfig.refreshExpiresMs
       IN  held' = [signedAs |-> "refresh", payload |-> payload,
                    token |-> signRefreshToken(payload, jwtConfig, now),
                    refreshExpiresMs |-> jwtConfig.refreshExpiresMs,
                    dateNow |-> dateNow,
                    expiresAt |-> expiresAt,
                    stored |-> timestamp0(expiresAt, mode)]
    /\ UNCHANGED <<users, rows, now, pc, req, res, issued, plain, rotatedOut,
                   overwritten, loggedOut, calls, wrongLogins, loggedIn, config, verdict>>

\* The client sends the token it holds as a bearer token: the access guard.
PresentAccess ==
    /\ held # NoHeld
    /\ LET answer == JwtAccessStrategy(held.token, config, now)
       IN  verdict' = [strategy |-> "jwt-access", presented |-> held, at |-> now,
                       ok |-> answer.ok, error |-> answer.error,
                       payload |-> answer.payload]
    /\ UNCHANGED <<users, rows, now, pc, req, res, issued, plain, rotatedOut,
                   overwritten, loggedOut, calls, wrongLogins, loggedIn, config, held>>

\* The client sends the token it holds in the body's refreshToken field: the
\* refresh guard.
PresentRefresh ==
    /\ held # NoHeld
    /\ LET answer == JwtRefreshStrategy(held.token, config, now)
       IN  verdict' = [strategy |-> "jwt-refresh", presented |-> held, at |-> now,
                       ok |-> answer.ok, error |-> answer.error,
                       payload |-> answer.payload]
    /\ UNCHANGED <<users, rows, now, pc, req, res, issued, plain, rotatedOut,
                   overwritten, loggedOut, calls, wrongLogins, loggedIn, config, held>>

(* --------------------------- the environment --------------------------- *)

Tick ==
    /\ now' = now + 1
    /\ UNCHANGED <<users, rows, pc, req, res, issued, plain, rotatedOut, overwritten, loggedOut, calls, wrongLogins, loggedIn, config, held, verdict>>

RegisterRequest(maxCalls) ==
    \E p \in Procs, username \in Usernames, password \in RegisterPasswords,
       deviceId \in Devices :
        calls < maxCalls /\ RegisterCheck(p, username, password, deviceId)

LoginRequest(maxCalls) ==
    \E p \in Procs, username \in Usernames, password \in Passwords,
       deviceId \in Devices :
        calls < maxCalls /\ LoginFind(p, username, password, deviceId)

RefreshRequest(maxCalls) ==
    \E p \in Procs, deviceId \in Devices :
        \E token \in {e.token : e \in issued} :
            calls < maxCalls /\ RefreshFind(p, token, deviceId)

LogoutRequest(maxCalls) ==
    \E p \in Procs, deviceId \in Devices, type \in LogoutTypes :
        \E userId \in {u.id : u \in users} :
            calls < maxCalls /\ Logout(p, userId, deviceId, type)

ClockTick(maxTime) == now < maxTime /\ Tick

Next ==
    \/ RegisterRequest(MaxCalls)
    \/ \E p \in Procs : RegisterCreate(p)
    \/ \E p \in Procs : RegisterStore(p)
    \/ LoginRequest(MaxCalls)
    \/ \E p \in Procs : LoginDelete(p)
    \/ \E p \in Procs : LoginCreate(p)
    \/ RefreshRequest(MaxCalls)
    \/ \E p \in Procs : RefreshLoadUser(p)
    \/ \E p \in Procs : RefreshUpdate(p)
    \/ LogoutRequest(MaxCalls)
    \/ ClockTick(MaxTime)

Spec == Init /\ [][Next]_vars

\* Refresh requests alone against the warm store, one request and one second more.
NextRefresh ==
    \/ RefreshRequest(MaxCalls + 1)
    \/ \E p \in Procs : RefreshLoadUser(p)
    \/ \E p \in Procs : RefreshUpdate(p)
    \/ ClockTick(MaxTime + 1)

SpecRefresh == InitWarm /\ [][NextRefresh]_vars

Faults == {"store", "config", "sign", "hash"}

RegisterFaultRequest(maxCalls) ==
    \E p \in Procs, username \in Usernames, password \in RegisterPasswords,
       deviceId \in Devices, fault \in Faults :
        calls < maxCalls /\ RegisterCheckFault(p, username, password, deviceId, fault)

\* Registers whose steps may fail under them.
NextFaults ==
    \/ RegisterRequest(MaxCalls)
    \/ \E p \in Procs : RegisterCreate(p)
    \/ \E p \in Procs : RegisterStore(p)
    \/ RegisterFaultRequest(MaxCalls)
    \/ \E p \in Procs, fault \in Faults : RegisterCreateFault(p, fault)
    \/ \E p \in Procs, fault \in Faults : RegisterStoreFault(p, fault)
    \/ ClockTick(MaxTime)

SpecFaults == Init /\ [][NextFaults]_vars

\* Requests admitted in one behaviour of the lockout specification: the
\* attempts that lock an account and one more.
MaxLockoutCalls == MAX_ATTEMPTS + 1

\* The one account and device the lockout specification logs in with, and a
\* username that no account has.
LockoutUsernames == {"john", "nobody"}
LockoutDevices == {"d1"}

\* The ids the lockout operations are called with: the account's, and one
\* that no account has.
LockoutUserIds ==
    {u.id : u \in {u \in users : u.username \in LockoutUsernames}} \cup {FreshUserId}

LockoutLoginRequest ==
    \E p \in Procs, username \in LockoutUsernames, password \in Passwords,
       deviceId \in LockoutDevices :
        calls < MaxLockoutCalls /\ LoginFind(p, username, password, deviceId)

IncreaseRequest ==
    \E p \in Procs : \E userId \in LockoutUserIds :
        calls < MaxLockoutCalls /\ IncreaseFind(p, userId)

ResetRequest ==
    \E p \in Procs : \E userId \in LockoutUserIds :
        calls < MaxLockoutCalls /\ ResetFailedLogin(p, userId)

\* Logins of one account on one device, with UsersService's lockout operations
\* called from outside, against the warm store.
NextLockout ==
    \/ LockoutLoginRequest
    \/ \E p \in Procs : LoginDelete(p)
    \/ \E p \in Procs : LoginCreate(p)
    \/ IncreaseRequest
    \/ \E p \in Procs : IncreaseUpdate(p)
    \/ ResetRequest
    \/ ClockTick(MaxTime)

SpecLockout == InitWarm /\ [][NextLockout]_vars

\* The values an environment may hold for the two secrets and the two durations.
SecretValues == {Unset, "s1", "s2"}
Unreadable == Duration(1, "soon")
AccessExpiries ==
    {UnsetDuration, Unreadable, Duration(AccessExpiresIn, "s"),
     Duration(AccessExpiresIn * 1000 + 500, "ms")}
RefreshExpiries == {UnsetDuration, Unreadable, Duration(RefreshExpiresIn, "s")}

Configs ==
    [JWT_ACCESS_SECRET : SecretValues, JWT_REFRESH_SECRET : SecretValues,
     JWT_ACCESS_EXPIRES_IN : AccessExpiries, JWT_REFRESH_EXPIRES_IN : RefreshExpiries]

\* The configurations the service accepts: the strategies are constructed and
\* getJwtConfig returns.
AcceptedConfigs ==
    {cfg \in Configs : StrategiesConstructed(cfg) /\ getJwtConfig(cfg).error = NoError}

\* Tokens signed for the accounts of the warm store and presented to the two
\* guards, under every accepted configuration, until the longest-lived token
\* has expired.
NextTokens ==
    \/ \E u \in users : SignAccess(PayloadOf(u))
    \/ \E u \in users : SignRefresh(PayloadOf(u))
    \/ PresentAccess
    \/ PresentRefresh
    \/ ClockTick(RefreshExpiresIn + MaxTime)

\* The warm store under any configuration the service accepts.
InitTokens == WarmStore /\ config \in AcceptedConfigs /\ NoTokens

SpecTokens == InitTokens /\ [][NextTokens]_vars

\* Requests admitted in one behaviour of the specifications that vary what
\* surrounds a request: the environment's configuration, the request's headers.
MaxEnvCalls == 1

\* Requests against the empty and the warm store, under every environment.
NextConfig ==
    \/ RegisterRequest(MaxEnvCalls)
    \/ \E p \in Procs : RegisterCreate(p)
    \/ \E p \in Procs : RegisterStore(p)
    \/ LoginRequest(MaxEnvCalls)
    \/ \E p \in Procs : LoginDelete(p)
    \/ \E p \in Procs : LoginCreate(p)
    \/ RefreshRequest(MaxEnvCalls)
    \/ \E p \in Procs : RefreshLoadUser(p)
    \/ \E p \in Procs : RefreshUpdate(p)

\* The empty or the warm store under any environment.
InitConfig == (ColdStore \/ WarmStore) /\ config \in Configs /\ NoTokens

SpecConfig == InitConfig /\ [][NextConfig]_vars

\* The x-device-id headers a client may send: none, an empty one, a device
\* id, and one that reaches the interceptor as an array.
Headers ==
    {Header("undefined", ""), Header("string", ""), Header("array", "d1")}
        \cup {Header("string", d) : d \in Devices}

HttpRegisterRequest ==
    \E p \in Procs, deviceId \in Headers, username \in Usernames,
       password \in RegisterPasswords :
        calls < MaxEnvCalls /\ HttpRegister(p, deviceId, username, password)

HttpLoginRequest ==
    \E p \in Procs, deviceId \in Headers, username \in Usernames,
       password \in Passwords :
        calls < MaxEnvCalls /\ HttpLogin(p, deviceId, username, password)

HttpRefreshRequest ==
    \E p \in Procs, deviceId \in Headers :
        \E token \in {e.token : e \in issued} \cup {NoToken} :
            calls < MaxEnvCalls /\ HttpRefresh(p, deviceId, token)

HttpLogoutRequest ==
    \E p \in Procs, deviceId \in Headers, type \in LogoutTypes :
        \E userId \in {u.id : u \in users} \cup {0} :
            calls < MaxEnvCalls /\ HttpLogout(p, deviceId, userId, type)

\* Requests that enter through the controller, with any x-device-id header.
NextDevice ==
    \/ HttpRegisterRequest
    \/ \E p \in Procs : RegisterCreate(p)
    \/ \E p \in Procs : RegisterStore(p)
    \/ HttpLoginRequest
    \/ \E p \in Procs : LoginDelete(p)
    \/ \E p \in Procs : LoginCreate(p)
    \/ HttpRefreshRequest
    \/ \E p \in Procs : RefreshLoadUser(p)
    \/ \E p \in Procs : RefreshUpdate(p)
    \/ HttpLogoutRequest
    \/ ClockTick(MaxTime)

SpecDevice == Init /\ [][NextDevice]_vars

\* The values of the column lockUntil: NULL, and every second the clock of
\* the lock specification shows.
LockUntilValues == {NullDate} \cup {DateOf(t) : t \in 0..(MaxTime + 1)}

\* The warm store some time after its accounts were locked or not: each
\* account carries any lockUntil.
InitLocked ==
    /\ \E lockJohn \in LockUntilValues, lockJane \in LockUntilValues :
          users = {[NewUser(1, "john", BcryptHash(Password("Password1!"), 1))
                       EXCEPT !.lockUntil = lockJohn],
                   [NewUser(2, "jane", BcryptHash(Password("Password1!"), 3))
                       EXCEPT !.lockUntil = lockJane]}
    /\ rows = {WarmRow(1, 1, "d1", 2), WarmRow(2, 2, "d1", 4), WarmRow(3, 1, "d2", 5)}
    /\ now = 0
    /\ pc = [p \in Procs |-> "idle"]
    /\ req = [p \in Procs |-> NoReq]
    /\ res = [p \in Procs |-> NoRes]
    /\ issued = {[token |-> WarmToken(1), deviceId |-> "d1"],
                 [token |-> WarmToken(2), deviceId |-> "d1"],
                 [token |-> WarmToken(1), deviceId |-> "d2"]}
    /\ plain = {<<1, WarmToken(1)>>, <<2, WarmToken(2)>>, <<3, WarmToken(1)>>}
    /\ rotatedOut = {}
    /\ overwritten = {}
    /\ loggedOut = {}
    /\ calls = 0
    /\ wrongLogins = [u \in Usernames |-> 0]
    /\ loggedIn = {}
    /\ Configured

EnsureRequest ==
    \E p \in Procs : \E userId \in {u.id : u \in users} :
        calls < MaxCalls /\ EnsureAccountNotLocked(p, userId)

\* The lock check called on accounts with any lockUntil, before, in and after
\* the second it names.
NextLocked ==
    \/ EnsureRequest
    \/ ClockTick(MaxTime + 1)

SpecLocked == InitLocked /\ [][NextLocked]_vars

\* A users row with the columns UpdateUserModel can write, as
\* prisma.user.create leaves them: the dates NULL, the account active.
FullUser(user) ==
    [id |-> user.id, username |-> user.username, password |-> user.password,
     failedLoginAttempts |-> user.failedLoginAttempts, lockUntil |-> user.lockUntil,
     passwordChangedAt |-> NullDate, lastLoginAt |-> NullDate,
     isActive |-> TRUE, deletedAt |-> NullDate]

\* The warm store with every column of its accounts.
InitUpdate ==
    /\ users = {FullUser(NewUser(1, "john", BcryptHash(Password("Password1!"), 1))),
                FullUser(NewUser(2, "jane", BcryptHash(Password("Password1!"), 3)))}
    /\ rows = {WarmRow(1, 1, "d1", 2), WarmRow(2, 2, "d1", 4), WarmRow(3, 1, "d2", 5)}
    /\ now = 0
    /\ pc = [p \in Procs |-> "idle"]
    /\ req = [p \in Procs |-> NoReq]
    /\ res = [p \in Procs |-> NoRes]
    /\ issued = {[token |-> WarmToken(1), deviceId |-> "d1"],
                 [token |-> WarmToken(2), deviceId |-> "d1"],
                 [token |-> WarmToken(1), deviceId |-> "d2"]}
    /\ plain = {<<1, WarmToken(1)>>, <<2, WarmToken(2)>>, <<3, WarmToken(1)>>}
    /\ rotatedOut = {}
    /\ overwritten = {}
    /\ loggedOut = {}
    /\ calls = 0
    /\ wrongLogins = [u \in Usernames |-> 0]
    /\ loggedIn = {}
    /\ Configured

\* The values a payload may carry for a date column: null, or the second
\* the clock shows.
DateValues == {NullDate, DateOf(now)}

\* The payloads update is called with: one field each, with its falsy values
\* among them, the empty payload, and the two that increaseFailedLogin and
\* resetFailedLogin send.
Payloads ==
    UNION {{f :> v : v \in DateValues} :
              f \in {"passwordChangedAt", "lastLoginAt", "lockUntil", "deletedAt"}}
        \cup {"failedLoginAttempts" :> n : n \in {0, 1}}
        \cup {"isActive" :> b : b \in BOOLEAN}
        \cup {"password" :> h : h \in {NoHash, BcryptHash(Password("Passw0rd#2"), 9)}}
        \cup {("failedLoginAttempts" :> n) @@ ("lockUntil" :> v) :
                  n \in {0, 1}, v \in DateValues}

UpdateRequest ==
    \E p \in Procs : \E userId \in {u.id : u \in users} \cup {FreshUserId} :
        \E payload \in Payloads :
            calls < MaxCalls /\ UpdateUser(p, userId, payload)

\* usersRepository.update called on the accounts of the warm store.
NextUpdate ==
    \/ UpdateRequest
    \/ ClockTick(MaxTime)

SpecUpdate == InitUpdate /\ [][NextUpdate]_vars

\* Logins whose last step may fail under them, against the warm store.
NextLoginFaults ==
    \/ LoginRequest(MaxCalls)
    \/ \E p \in Procs : LoginDelete(p)
    \/ \E p \in Procs : LoginCreate(p)
    \/ \E p \in Procs, fault \in Faults : LoginCreateFault(p, fault)
    \/ ClockTick(MaxTime)

SpecLoginFaults == InitWarm /\ [][NextLoginFaults]_vars

\* Refresh requests against the warm store while the clock runs past the
\* expiresAt of the rows written in second 0.
NextExpiry ==
    \/ RefreshRequest(MaxCalls)
    \/ \E p \in Procs : RefreshLoadUser(p)
    \/ \E p \in Procs : RefreshUpdate(p)
    \/ ClockTick(RefreshExpiresIn + MaxTime)

SpecExpiry == InitWarm /\ [][NextExpiry]_vars

\* Refresh requests against the warm store while accounts are deleted.
NextDeleted ==
    \/ \E userId \in {u.id : u \in users} : DeleteAccount(userId)
    \/ RefreshRequest(MaxCalls)
    \/ \E p \in Procs : RefreshLoadUser(p)
    \/ \E p \in Procs : RefreshUpdate(p)
    \/ ClockTick(MaxTime)

SpecDeleted == InitWarm /\ [][NextDeleted]_vars

\* The environments the application starts under that differ in the refresh
\* lifetime alone: readable, unreadable, not set.
StartedConfigs ==
    {cfg \in Configs :
        /\ cfg.JWT_ACCESS_SECRET = DefaultConfig.JWT_ACCESS_SECRET
        /\ cfg.JWT_REFRESH_SECRET = DefaultConfig.JWT_REFRESH_SECRET
        /\ cfg.JWT_ACCESS_EXPIRES_IN = DefaultConfig.JWT_ACCESS_EXPIRES_IN}

\* The accounts that no Device Token row references and no register is at work on.
Orphans ==
    {u \in users :
        /\ \A r \in rows : r.userId # u.id
        /\ \A p \in Procs : ~(pc[p] = "reg_store" /\ req[p].userId = u.id)}

\* Registers whose token step may fail under them, and logins, from the empty
\* store.
NextOrphan ==
    \/ RegisterRequest(MaxCalls)
    \/ \E p \in Procs : RegisterCreate(p)
    \/ \E p \in Procs : RegisterStore(p)
    \/ \E p \in Procs, fault \in Faults : RegisterStoreFault(p, fault)
    \/ LoginRequest(MaxCalls)
    \/ \E p \in Procs : LoginDelete(p)
    \/ \E p \in Procs : LoginCreate(p)

InitOrphan == ColdStore /\ config \in StartedConfigs /\ NoTokens

SpecOrphan == InitOrphan /\ [][NextOrphan]_vars

\* Refresh lifetimes around the whole seconds, and the milliseconds that may
\* pass between the start of the signing second and Date.now().
RefreshLifetimes ==
    {Duration(n, "ms") : n \in {1, 999, 1000, 1001, 1500, 2999}}
        \cup {Duration(RefreshExpiresIn, "s"), Duration(1, "m")}
ElapsedMillis == {0, 1, 499, 500, 999, 1000}

NextLifetime ==
    \/ \E u \in users, elapsed \in ElapsedMillis, mode \in TimestampModes :
          GenerateRefreshToken(PayloadOf(u), now * 1000 + elapsed, mode)
    \/ ClockTick(MaxTime)

InitLifetime ==
    /\ WarmStore
    /\ config \in {[DefaultConfig EXCEPT !.JWT_REFRESH_EXPIRES_IN = d] :
                      d \in RefreshLifetimes}
    /\ NoTokens

SpecLifetime == InitLifetime /\ [][NextLifetime]_vars

(* ------------------------------- claims -------------------------------- *)

IssuedTokens == {e.token : e \in issued}

\* The raw refresh tokens whose hash the rows of a pair hold.
CurrentTokens(userId, deviceId) ==
    {e[2] : e \in {x \in plain :
                     \E r \in RowsOf(rows, userId, deviceId) : r.id = x[1]}}

FinishedWith(op, outcome, note) ==
    \E p \in Procs :
        /\ pc[p] = "done"
        /\ res[p].op = op
        /\ res[p].outcome = outcome
        /\ res[p].note = note

\* C1: once a successful refreshToken(userId, deviceId, t) has rotated the row to
\* another token, every later refreshToken(userId, deviceId, t) fails with
\* Unauthorized and leaves the Device Token rows as they are.
C1_RotatedOutTokenRejected ==
    [][\A p \in Procs, deviceId \in Devices : \A token \in IssuedTokens :
          (/\ <<token.sub, deviceId, token>> \in rotatedOut
           /\ RefreshFind(p, token, deviceId))
          => (res'[p].outcome = "Unauthorized" /\ rows' = rows)]_vars

\* C2: when a login for (accountId, deviceId) succeeds, whatever logins came
\* before it, exactly one row exists for the pair and it holds a hash of the
\* refresh token this login returns, with that token's expiry.
C2_OneRowAfterLogin ==
    [][\A p \in Procs :
          (pc[p] = "login_create" /\ LoginCreate(p) /\ res'[p].outcome = "ok")
          => LET mine == RowsOf(rows', req[p].userId, req[p].deviceId)
             IN  /\ Cardinality(mine) = 1
                 /\ \A r \in mine :
                       /\ r.tokenHash = BcryptHash(req[p].newToken, r.tokenHash.salt)
                       /\ r.expiresAt = req[p].expiresAt
                       /\ <<r.id, req[p].newToken>> \in plain'
                 /\ [token |-> req[p].newToken, deviceId |-> req[p].deviceId]
                       \in issued']_vars

\* A login has answered for a pair whose earlier row it removed.
C2_Witness == FinishedWith("login", "ok", "replaced")

\* C3: in every reachable state, whatever requests run concurrently, a pair
\* (accountId, deviceId) has at most one Device Token row.
C3_AtMostOneRowPerPair ==
    \A r1 \in rows, r2 \in rows :
        (r1.userId = r2.userId /\ r1.deviceId = r2.deviceId) => r1 = r2

\* Two logins raced on one pair and the second insert was refused.
C3_Witness == FinishedWith("login", "P2002", "") /\ rows # {}

\* C4: a refreshToken whose row a concurrent login deleted ends with success or
\* with Unauthorized, never with another error.
C4_RefreshRacingLoginEndsCleanly ==
    \A p \in Procs :
        (pc[p] = "done" /\ res[p].op = "refresh" /\ res[p].note = "login")
        => res[p].outcome \in {"ok", "Unauthorized"}

\* C5: a successful refreshToken keeps every row's id, owner and device, leaves
\* the other rows as they are, inserts and deletes nothing, and gives its row a
\* new hash, of the refresh token it returns, and that token's expiry.
C5_RotationInPlace ==
    [][\A p \in Procs :
          (pc[p] = "ref_update" /\ RefreshUpdate(p) /\ res'[p].outcome = "ok")
          => LET rt == generateRefreshToken([sub |-> req[p].userId], now)
             IN  /\ {r.id : r \in rows'} = {r.id : r \in rows}
                 /\ Cardinality(rows') = Cardinality(rows)
                 /\ \A r \in rows : \E r2 \in rows' :
                       /\ r2.id = r.id
                       /\ r2.userId = r.userId
                       /\ r2.deviceId = r.deviceId
                       /\ r.id # req[p].tokenRecord.id => r2 = r
                       /\ r.id = req[p].tokenRecord.id =>
                             /\ r2.tokenHash # r.tokenHash
                             /\ r2.tokenHash = BcryptHash(rt.token, r2.tokenHash.salt)
                             /\ r2.expiresAt = rt.expiresAt]_vars

\* A refresh has rotated a row in a later second than the row was written in.
C5_Witness ==
    /\ FinishedWith("refresh", "ok", "nobody")
    /\ \E r \in rows : r.expiresAt > RefreshExpiresIn

\* C6: when two refreshToken calls that presented the same token have both
\* answered, the row holds the hash of the token the last of them issued, and
\* from then on the token they presented and the token the first of them
\* issued are refused with Unauthorized.
C6_RaceLeavesOneUsableToken ==
    [][/\ \A p \in Procs :
             (pc[p] = "ref_update" /\ RefreshUpdate(p) /\ res'[p].outcome = "ok")
             => \A r \in rows' :
                   r.id = req[p].tokenRecord.id =>
                       <<r.id, generateRefreshToken([sub |-> req[p].userId], now).token>>
                           \in plain'
       /\ \A p \in Procs, deviceId \in Devices : \A token \in IssuedTokens :
             (/\ <<token.sub, deviceId, token>> \in overwritten
              /\ token \notin CurrentTokens(token.sub, deviceId)
              /\ RefreshFind(p, token, deviceId))
             => res'[p].outcome = "Unauthorized"]_vars

\* C7: refreshToken for a pair that has no row, as after a logout of the device,
\* fails with Unauthorized, returns no token and changes no row and no account.
C7_NoRowUnauthorized ==
    [][\A p \in Procs, deviceId \in Devices : \A token \in IssuedTokens :
          (/\ RowsOf(rows, token.sub, deviceId) = {}
           /\ RefreshFind(p, token, deviceId))
          => /\ pc'[p] = "done"
             /\ res'[p].outcome = "Unauthorized"
             /\ rows' = rows
             /\ issued' = issued
             /\ users' = users]_vars

\* A refresh was refused for a pair whose row a logout had removed.
C7_Witness ==
    /\ FinishedWith("refresh", "Unauthorized", "logged out")
    /\ loggedOut # {}

\* C8: a pair goes from no row to a row only when a register or a login for that
\* pair inserts it; a refreshToken, also one that read the row before a logout
\* removed it and writes afterwards, never brings a row back.
C8_OnlyLoginAndRegisterCreate ==
    [][\A userId \in {u.id : u \in users}, deviceId \in Devices :
          (RowsOf(rows, userId, deviceId) = {} /\ RowsOf(rows', userId, deviceId) # {})
          => \E p \in Procs :
                /\ pc[p] \in {"reg_store", "login_create"}
                /\ req[p].userId = userId
                /\ req[p].deviceId = deviceId
                /\ pc'[p] = "done"
                /\ res'[p].outcome = "ok"]_vars

\* A refresh read its row, a logout removed the row, and the refresh's write failed.
C8_Witness ==
    /\ FinishedWith("refresh", "P2025", "logout")
    /\ loggedOut # {}

\* C9: logout with type "current", or with the type left out, removes the rows
\* of (userId, deviceId) and no other row, of this account or of another.
C9_LogoutCurrentFrame ==
    [][\A p \in Procs, deviceId \in Devices, type \in {"current", "undefined"} :
          \A userId \in {u.id : u \in users} :
             Logout(p, userId, deviceId, type)
             => /\ res'[p].outcome = "ok"
                /\ rows' \subseteq rows
                /\ \A r \in rows :
                      r \in rows' <=> ~(r.userId = userId /\ r.deviceId = deviceId)]_vars

\* A logout of one device removed its row; the account's other device and the
\* other account kept theirs.
C9_Witness ==
    /\ \/ FinishedWith("logout", "ok", "current")
       \/ FinishedWith("logout", "ok", "undefined")
    /\ loggedOut = {<<1, "d1">>}
    /\ RowsOf(rows, 1, "d2") # {}
    /\ RowsOf(rows, 2, "d1") # {}

\* C10: logout with type "all_devices" removes every row of userId, whatever its
\* device, and no row of another account.
C10_LogoutAllFrame ==
    [][\A p \in Procs, deviceId \in Devices :
          \A userId \in {u.id : u \in users} :
             Logout(p, userId, deviceId, "all_devices")
             => /\ res'[p].outcome = "ok"
                /\ rows' \subseteq rows
                /\ \A r \in rows : r \in rows' <=> r.userId # userId]_vars

\* A logout of all devices removed both rows of one account and left the other's.
C10_Witness ==
    /\ FinishedWith("logout", "ok", "all_devices")
    /\ loggedOut = {<<1, "d1">>, <<1, "d2">>}
    /\ RowsOf(rows, 2, "d1") # {}

\* C11: logout with a type other than "current" and "all_devices" fails with
\* BadRequest and its message, and removes and changes no Device Token row.
C11_LogoutBadTypeRejected ==
    [][\A p \in Procs, deviceId \in Devices :
          \A type \in LogoutTypes \ {"current", "all_devices", "undefined"} :
             \A userId \in {u.id : u \in users} :
                Logout(p, userId, deviceId, type)
                => /\ pc'[p] = "done"
                   /\ res'[p].outcome = "BadRequest"
                   /\ res'[p].message = InvalidLogoutType.message
                   /\ rows' = rows
                   /\ users' = users]_vars

\* A logout with an unknown type was refused while the account had rows.
C11_Witness ==
    /\ FinishedWith("logout", "BadRequest", "everything")
    /\ \E r \in rows : r.userId = 1

\* C12: a logout with a valid type succeeds also when it finds no row to remove,
\* and then changes nothing; the same logout run again on the store it leaves
\* would leave that store as it is.
C12_LogoutIdempotent ==
    [][\A p \in Procs, deviceId \in Devices :
          \A type \in {"current", "all_devices", "undefined"} :
             \A userId \in {u.id : u \in users} :
                Logout(p, userId, deviceId, type)
                => LET targets == IF type = "all_devices"
                                  THEN {r \in rows : r.userId = userId}
                                  ELSE RowsOf(rows, userId, deviceId)
                       again == IF type = "all_devices"
                                THEN deleteAllTokenUser(rows', userId)
                                ELSE deleteTokenByUserAndDevice(rows', userId, deviceId)
                   IN  /\ pc'[p] = "done"
                       /\ res'[p].outcome = "ok"
                       /\ targets = {} => rows' = rows
                       /\ again = rows'
                       /\ users' = users]_vars

\* The only request so far was a logout that found no row, and it succeeded.
C12_Witness ==
    /\ calls = 1
    /\ \E type \in {"current", "all_devices", "undefined"} :
          FinishedWith("logout", "ok", type)
    /\ loggedOut = {}
    /\ rows # {}

\* C13: no two accounts share a username; a register for a username that an
\* account holds fails with Conflict and creates no account and no row; a
\* register for a username that no account holds, at its check and at its
\* insert, creates the account and, no login for the new account having come
\* in between, its row, and succeeds.
C13_UsernameUnique ==
    /\ [](\A u1 \in users, u2 \in users : u1.username = u2.username => u1 = u2)
    /\ [][\A p \in Procs, username \in Usernames, password \in RegisterPasswords,
             deviceId \in Devices :
             RegisterCheck(p, username, password, deviceId)
             => IF findByUsername(users, username) # {}
                THEN /\ pc'[p] = "done"
                     /\ res'[p].outcome = "Conflict"
                     /\ res'[p].message = ConflictUsername.message
                     /\ users' = users
                     /\ rows' = rows
                     /\ issued' = issued
                ELSE pc'[p] = "reg_create"]_vars
    /\ [][\A p \in Procs :
             (/\ pc[p] = "reg_create"
              /\ findByUsername(users, req[p].username) = {}
              /\ RegisterCreate(p))
             => /\ pc'[p] = "reg_store"
                /\ Cardinality(users') = Cardinality(users) + 1]_vars
    /\ [][\A p \in Procs :
             (/\ pc[p] = "reg_store"
              /\ RowsOf(rows, req[p].userId, req[p].deviceId) = {}
              /\ RegisterStore(p))
             => /\ res'[p].outcome = "ok"
                /\ Cardinality(RowsOf(rows', req[p].userId, req[p].deviceId)) = 1]_vars

\* A register for a taken username was refused at the check, after a first
\* register had created the account in this run.
C13_Witness ==
    /\ FinishedWith("register", "Conflict", "check")
    /\ Cardinality(users) = 1
    /\ Cardinality(rows) = 1
    /\ calls = 2

\* C14: of two registers for one username that both passed the check, the one
\* whose insert comes second is refused by the store and answers Conflict
\* "Username already exists", not an Internal error; it creates no account and
\* no row, and after either insert exactly one account holds the username.
C14_RegisterRaceConflict ==
    [][\A p \in Procs :
          (pc[p] = "reg_create" /\ RegisterCreate(p))
          => /\ Cardinality(findByUsername(users', req[p].username)) = 1
             /\ UsernameTaken(users, req[p].username)
                   => /\ pc'[p] = "done"
                      /\ res'[p].outcome = "Conflict"
                      /\ res'[p].message = ConflictUsername.message
                      /\ users' = users
                      /\ rows' = rows
                      /\ issued' = issued]_vars

\* Two registers for one username passed the check together; the second insert
\* was refused.
C14_Witness ==
    /\ FinishedWith("register", "Conflict", "create")
    /\ calls = 2
    /\ Cardinality(users) = 1

\* C15: an account that has had MAX_ATTEMPTS wrong-password logins since its
\* last successful login has failedLoginAttempts at MAX_ATTEMPTS or more and a
\* lockUntil later than now.
C15_FiveWrongLoginsLock ==
    \A u \in users :
        wrongLogins[u.username] >= MAX_ATTEMPTS
        => /\ u.failedLoginAttempts >= MAX_ATTEMPTS
           /\ ~u.lockUntil.isNull
           /\ u.lockUntil.time > now

\* Five logins with a wrong password have been answered for one account.
C15_Witness ==
    /\ wrongLogins["john"] = MAX_ATTEMPTS
    /\ FinishedWith("login", "Unauthorized", "password")

\* C16: a login for an account whose lockUntil is later than now is refused
\* with Forbidden at once, whatever the password, and so issues no token and
\* touches no row.
C16_LockedLoginForbidden ==
    [][\A p \in Procs, username \in Usernames, password \in Passwords,
          deviceId \in Devices :
          (/\ \E u \in findByUsername(users, username) :
                  ~ensureAccountNotLocked(u, now)
           /\ LoginFind(p, username, password, deviceId))
          => /\ pc'[p] = "done"
             /\ res'[p].outcome = "Forbidden"
             /\ rows' = rows
             /\ issued' = issued]_vars

\* A login has succeeded for an account that is locked.
C16_Witness ==
    /\ \E u \in users : u.username = "john" /\ ~ensureAccountNotLocked(u, now)
    /\ \/ FinishedWith("login", "ok", "replaced")
       \/ FinishedWith("login", "ok", "first")

\* C17: when a login succeeds, the account has failedLoginAttempts = 0 and
\* lockUntil = null, whatever they were before.
C17_LoginResetsCounter ==
    [][\A p \in Procs :
          (pc[p] = "login_create" /\ LoginCreate(p) /\ res'[p].outcome = "ok")
          => \A u \in findById(users', req[p].userId) :
                u.failedLoginAttempts = 0 /\ u.lockUntil.isNull]_vars

\* A login has succeeded for an account with failed attempts on its record.
C17_Witness ==
    /\ \E u \in users : u.username = "john" /\ u.failedLoginAttempts > 0
    /\ wrongLogins["john"] = 0
    /\ \/ FinishedWith("login", "ok", "replaced")
       \/ FinishedWith("login", "ok", "first")

\* C18: a login refused because the username is unknown and a login refused
\* because the password does not match end with the same exception, Unauthorized
\* "Invalid username or password": the answer does not tell the two apart.
C18_LoginErrorUniform ==
    /\ LoginUserNotFound = LoginPasswordInvalid
    /\ \A p \in Procs :
          (/\ pc[p] = "done"
           /\ res[p].op = "login"
           /\ res[p].note \in {"username", "password"})
          => /\ res[p].outcome = "Unauthorized"
             /\ res[p].message = "Invalid username or password"

\* In one run a login with a wrong password was refused, and then a login
\* with a username that has no account.
C18_Witness ==
    /\ FinishedWith("login", "Unauthorized", "username")
    /\ wrongLogins["john"] = 1

\* C19: a register that has answered has succeeded, or failed with the
\* Conflict "Username already exists" that the check or the insert raised, or
\* failed with Internal "Failed to register user"; the last is what every
\* failure under one of its steps becomes, and no other error leaves register.
C19_RegisterErrorsWrapped ==
    \A p \in Procs :
        (pc[p] = "done" /\ res[p].op = "register")
        => /\ \/ res[p].outcome = "ok"
              \/ res[p].outcome = "Conflict" /\ res[p].message = ConflictUsername.message
              \/ res[p].outcome = "Internal" /\ res[p].message = "Failed to register user"
           /\ res[p].note \in {"check", "create"} => res[p].outcome = "Conflict"
           /\ res[p].note \in Faults \cup {"P2002"} => res[p].outcome = "Internal"

\* A register created its account, then failed under its token step and
\* answered Internal; the account is there without a row.
C19_Witness ==
    /\ \E p \in Procs, fault \in Faults :
          /\ pc[p] = "done"
          /\ res[p].op = "register"
          /\ res[p].outcome = "Internal"
          /\ res[p].note = fault
    /\ Cardinality(users) = 1
    /\ rows = {}

\* C20: a login, refreshToken or logout that has answered has succeeded or
\* failed with one of the service's own exceptions (Unauthorized, Forbidden,
\* NotFound, BadRequest) or with Internal; the store's and the crypto library's
\* own errors never reach the caller.
C20_FailuresSurfaceInternal ==
    \A p \in Procs :
        (pc[p] = "done" /\ res[p].op \in {"login", "refresh", "logout"})
        => res[p].outcome \in
              {"ok", "Unauthorized", "Forbidden", "NotFound", "BadRequest", "Internal"}

\* C21: under every configuration the service accepts, no token signed as an
\* access token passes the refresh strategy and no token signed as a refresh
\* token passes the access strategy.
C21_KindsNeverCross ==
    verdict.ok =>
        /\ verdict.strategy = "jwt-refresh" => verdict.presented.signedAs = "refresh"
        /\ verdict.strategy = "jwt-access" => verdict.presented.signedAs = "access"

\* C23: a signed token presented to the strategy that holds the secret it was
\* signed with is answered with the payload it was signed for (sub, username)
\* at every second before its exp, and is refused from its exp on; presented
\* to a strategy that holds another secret it is refused at every second.
C23_VerifyRoundTrip ==
    verdict.strategy # "none" =>
        LET signedWith == IF verdict.presented.signedAs = "access"
                          THEN config.JWT_ACCESS_SECRET
                          ELSE config.JWT_REFRESH_SECRET
            verifiedWith == IF verdict.strategy = "jwt-access"
                            THEN config.JWT_ACCESS_SECRET
                            ELSE config.JWT_REFRESH_SECRET
            exp == verdict.presented.token.exp
        IN  /\ (signedWith = verifiedWith /\ verdict.at < exp)
                  => (verdict.ok /\ verdict.payload = verdict.presented.payload)
            /\ verdict.at >= exp => ~verdict.ok
            /\ signedWith # verifiedWith => ~verdict.ok

\* A refresh token was presented to the refresh guard, which holds the secret
\* it was signed with, in the second of its exp and was refused as expired.
C23_Witness ==
    /\ verdict.strategy = "jwt-refresh"
    /\ verdict.presented.signedAs = "refresh"
    /\ verdict.at = verdict.presented.token.exp
    /\ verdict.error = "jwt expired"

\* C22: bcrypt.compare(s, hash) is true exactly for the secret s the hash was
\* made of: a stored password hash matches the registered password and no
\* other, and a row's tokenHash matches the refresh token it was made of and
\* no other issued refresh token, tokens of the same account included.
C22_HashVerifiesOnlyItsSecret ==
    /\ \A u \in users, password \in Passwords :
          BcryptCompare(Password(password), u.password)
              <=> password \in RegisterPasswords
    /\ \A r \in rows : \A token \in IssuedTokens :
          BcryptCompare(token, r.tokenHash) <=> <<r.id, token>> \in plain

\* C24: a register that succeeds has created exactly one account, with the
\* username it was called with, and then exactly one Device Token row, owned by
\* that account and keyed to the deviceId it was called with, whose tokenHash is
\* a hash of the refresh token it returns; the id and username it returns are
\* those of the account it created.
C24_RegisterCreatesAccountAndRow ==
    [][\A p \in Procs :
          /\ (pc[p] = "reg_create" /\ RegisterCreate(p) /\ pc'[p] = "reg_store")
             => /\ \E u \in users' \ users :
                      /\ users' = users \cup {u}
                      /\ u.id = req'[p].userId
                      /\ u.username = req[p].username
                /\ rows' = rows
          /\ (pc[p] = "reg_store" /\ RegisterStore(p) /\ res'[p].outcome = "ok")
             => LET returned == generateRefreshToken([sub |-> req[p].userId], now).token
                IN  /\ users' = users
                    /\ \E u \in users :
                          u.id = req[p].userId /\ u.username = req[p].username
                    /\ \E r \in rows' \ rows :
                          /\ rows' = rows \cup {r}
                          /\ r.userId = req[p].userId
                          /\ r.deviceId = req[p].deviceId
                          /\ r.tokenHash = BcryptHash(returned, r.tokenHash.salt)
                          /\ <<r.id, returned>> \in plain'
                    /\ [token |-> returned, deviceId |-> req[p].deviceId] \in issued'
      ]_vars

\* Two registers have succeeded, the later one on the second device.
C24_Witness ==
    /\ FinishedWith("register", "ok", "")
    /\ Cardinality(users) = 2
    /\ \E r \in rows : r.userId = 2 /\ r.deviceId = "d2"
    /\ calls = 2

\* C25: once a login has succeeded for (accountId, deviceId), every
\* refreshToken for that pair that presents a refresh token issued for the pair
\* before that login ends with Unauthorized.
C25_EarlierTokenRejectedAfterLogin ==
    [][\A p \in Procs, deviceId \in Devices : \A token \in IssuedTokens :
          (/\ [token |-> token, deviceId |-> deviceId] \in issued
           /\ \E login \in loggedIn :
                 /\ login[1] = token.sub
                 /\ login[2] = deviceId
                 /\ token.iat < login[3].iat
           /\ RefreshFind(p, token, deviceId))
          => res'[p].outcome = "Unauthorized"]_vars

\* One of the four JWT_* values is not set.
ConfigMissing(cfg) ==
    \/ cfg.JWT_ACCESS_SECRET = Unset
    \/ cfg.JWT_REFRESH_SECRET = Unset
    \/ cfg.JWT_ACCESS_EXPIRES_IN = UnsetDuration
    \/ cfg.JWT_REFRESH_EXPIRES_IN = UnsetDuration

\* One of the two durations is set to a string that is no duration.
ExpiryUnreadable(cfg) ==
    \/ cfg.JWT_ACCESS_EXPIRES_IN # UnsetDuration /\ ~ms(cfg.JWT_ACCESS_EXPIRES_IN).isNumber
    \/ cfg.JWT_REFRESH_EXPIRES_IN # UnsetDuration /\ ~ms(cfg.JWT_REFRESH_EXPIRES_IN).isNumber

\* C26: when one of the four JWT_* values is missing or a duration cannot be
\* parsed, no register, login or refreshToken returns tokens: each ends with
\* the domain error it raises before it generates tokens (Conflict,
\* Unauthorized, NotFound) or else with Internal, never with another error
\* and never with tokens made from a default.
C26_BadConfigFailsInternal ==
    (ConfigMissing(config) \/ ExpiryUnreadable(config)) =>
        /\ \A p \in Procs :
              pc[p] = "done" =>
                  res[p].outcome \in {"Internal", "Conflict", "Unauthorized", "NotFound"}
        /\ \A p \in Procs : pc[p] \notin {"login_delete", "login_create", "ref_update"}
        /\ loggedIn = {}

\* What a request whose x-device-id the interceptor must refuse leaves behind:
\* it has answered, and no table and no issued token has changed.
EndsBeforeHandler(p) ==
    /\ pc'[p] = "done"
    /\ req'[p] = NoReq
    /\ UNCHANGED <<users, rows, issued, plain, loggedIn, loggedOut>>

BadHeaders == {h \in Headers : h.type # "string" \/ h.value = ""}

\* C27 as written: every request whose x-device-id header is missing, empty or
\* not a single string is answered with BadRequest before its handler runs.
C27_BadHeaderIsBadRequest ==
    [][\A p \in Procs, deviceId \in BadHeaders :
          /\ \A username \in Usernames, password \in Passwords :
                /\ HttpRegister(p, deviceId, username, password)
                      => (EndsBeforeHandler(p) /\ res'[p].outcome = "BadRequest")
                /\ HttpLogin(p, deviceId, username, password)
                      => (EndsBeforeHandler(p) /\ res'[p].outcome = "BadRequest")
          /\ \A token \in IssuedTokens \cup {NoToken} :
                HttpRefresh(p, deviceId, token)
                    => (EndsBeforeHandler(p) /\ res'[p].outcome = "BadRequest")
          /\ \A userId \in {u.id : u \in users} \cup {0}, type \in LogoutTypes :
                HttpLogout(p, deviceId, userId, type)
                    => (EndsBeforeHandler(p) /\ res'[p].outcome = "BadRequest")
      ]_vars

\* C27, amended: no handler runs for a request whose x-device-id header is
\* missing, empty or not a single string. The request is answered before the
\* handler: with BadRequest on register and login and on refreshToken and
\* logout when the route's guard accepts its token, with Unauthorized when the
\* guard, which runs before the interceptor, refuses the token. Every request
\* inside a handler carries a non-empty deviceId.
C27_BadHeaderNeverReachesHandler ==
    /\ [](\A p \in Procs :
             req[p].op \in {"register", "login", "refresh"} => req[p].deviceId \in Devices)
    /\ [][\A p \in Procs, deviceId \in BadHeaders :
             /\ \A username \in Usernames, password \in Passwords :
                   /\ HttpRegister(p, deviceId, username, password)
                         => (EndsBeforeHandler(p) /\ res'[p].outcome = "BadRequest")
                   /\ HttpLogin(p, deviceId, username, password)
                         => (EndsBeforeHandler(p) /\ res'[p].outcome = "BadRequest")
             /\ \A token \in IssuedTokens \cup {NoToken} :
                   HttpRefresh(p, deviceId, token)
                       => /\ EndsBeforeHandler(p)
                          /\ res'[p].outcome =
                                IF token \in IssuedTokens /\ now < token.iat + RefreshExpiresIn
                                THEN "BadRequest" ELSE "Unauthorized"
             /\ \A userId \in {u.id : u \in users} \cup {0}, type \in LogoutTypes :
                   HttpLogout(p, deviceId, userId, type)
                       => /\ EndsBeforeHandler(p)
                          /\ res'[p].outcome =
                                IF userId # 0 THEN "BadRequest" ELSE "Unauthorized"
         ]_vars

\* A logout with a verified bearer token and no usable x-device-id was
\* answered with BadRequest by the interceptor.
C27_Witness == FinishedWith("logout", "BadRequest", "device")

\* C28: an increaseFailedLogin(userId) that no other write to the account
\* comes between raises failedLoginAttempts by exactly 1, at 5 and beyond as
\* well; it sets lockUntil to now + 15 minutes when the new count is at least
\* 5 and leaves lockUntil as it was when the new count is below 5; it changes
\* nothing else.
C28_IncreaseAddsOneAndLocks ==
    [][\A p \in Procs :
          (/\ pc[p] = "inc_update"
           /\ IncreaseUpdate(p)
           /\ \E u \in users :
                 /\ u.id = req[p].userId
                 /\ u.failedLoginAttempts = req[p].failedLoginAttempts
                 /\ u.lockUntil = req[p].lockUntil)
          => \E u \in users :
                /\ u.id = req[p].userId
                /\ res'[p].outcome = "ok"
                /\ LET after == CHOOSE v \in users' : v.id = u.id
                   IN  /\ users' = (users \ {u}) \cup {after}
                       /\ after.failedLoginAttempts = u.failedLoginAttempts + 1
                       /\ after.lockUntil =
                             IF u.failedLoginAttempts + 1 >= 5
                             THEN DateOf(now + 15 * 60)
                             ELSE u.lockUntil
                       /\ after.username = u.username
                       /\ after.password = u.password
                /\ rows' = rows]_vars

\* Six calls in a row have raised the count past the threshold and the
\* account carries a lock.
C28_Witness ==
    /\ FinishedWith("increaseFailedLogin", "ok", "")
    /\ \E u \in users : u.failedLoginAttempts = 6 /\ ~u.lockUntil.isNull

C30_LockedExactlyWhileBeforeLockUntil ==
    [][\A p \in Procs : \A user \in users :
          EnsureAccountNotLocked(p, user.id)
          => /\ res'[p].outcome =
                   IF ~user.lockUntil.isNull /\ user.lockUntil.time > now
                   THEN "Forbidden" ELSE "ok"
             /\ UNCHANGED <<users, rows, issued, plain, now>>]_vars

\* The check has passed for an account in the very second its lock ends.
C30_Witness ==
    /\ FinishedWith("ensureAccountNotLocked", "ok", "")
    /\ \A u \in users : ~u.lockUntil.isNull /\ u.lockUntil.time = now
    /\ now > 0

\* C31: update(userId, payload) writes exactly the fields the payload holds
\* and keeps every other column: null for lockUntil, deletedAt,
\* passwordChangedAt or lastLoginAt clears the column, and 0 for
\* failedLoginAttempts or false for isActive is written like any other value.
C31_UpdateWritesExactlyPayload ==
    [][\A p \in Procs : \A u \in users : \A payload \in Payloads :
          (UpdateUser(p, u.id, payload) /\ payload \in Payloads \ {"password" :> NoHash})
          => \E v \in users' :
                /\ v.id = u.id
                /\ users' = (users \ {u}) \cup {v}
                /\ \A f \in DOMAIN u :
                      v[f] = IF f \in DOMAIN payload THEN payload[f] ELSE u[f]]_vars

\* C32: a login that fails, its insert after its delete included, leaves a
\* Device Token row for (accountId, deviceId) where it found one: when the
\* login had deleted the pair's row and then ends with an error, the pair
\* has a row again.
C32_FailedLoginKeepsRow ==
    [][\A p \in Procs :
          (/\ pc[p] = "login_create"
           /\ pc'[p] = "done"
           /\ res'[p].outcome # "ok"
           /\ req[p].replaced)
          => RowsOf(rows', req[p].userId, req[p].deviceId) # {}]_vars

\* C33: a refreshToken call that the guard admitted passes its row checks, and
\* so goes on to issue tokens, only against a row that is active at the time
\* of the call: the matched row's expiresAt is not in the past. (The rows of
\* the model have no revokedAt, which no statement of the service writes.)
C33_RefreshOnlyAgainstActiveRow ==
    [][\A p \in Procs :
          (Free(p) /\ pc'[p] = "ref_user")
          => req'[p].tokenRecord.expiresAt >= now]_vars

\* C34 as stated: refreshToken called with a userId that references no
\* account fails with NotFound, issues no tokens and modifies no row.
C34_NoAccountIsNotFound ==
    [][\A p \in Procs : \A e \in issued : \A deviceId \in Devices :
          (RefreshFind(p, e.token, deviceId) /\ findById(users, e.token.sub) = {})
          => /\ pc'[p] = "done"
             /\ res'[p].outcome = "NotFound"
             /\ rows' = rows
             /\ issued' = issued]_vars

\* C34, amended: refreshToken called with a userId that references no account
\* fails at the row lookup with Unauthorized, because no Device Token row can
\* reference a missing account; it issues no tokens and modifies no row.
C34_NoAccountIsUnauthorized ==
    [][\A p \in Procs : \A e \in issued : \A deviceId \in Devices :
          (RefreshFind(p, e.token, deviceId) /\ findById(users, e.token.sub) = {})
          => /\ pc'[p] = "done"
             /\ res'[p].outcome = "Unauthorized"
             /\ res'[p].message = RefreshNoRecord.message
             /\ rows' = rows
             /\ issued' = issued]_vars

\* A refreshToken call for a deleted account has been answered.
C34_Witness == FinishedWith("refresh", "Unauthorized", "no account")

\* C35: a login or refreshToken call that fails with Unauthorized has written
\* nothing: it ends in its first step, before any statement that writes, and
\* that step leaves every Device Token row, of the targeted device and of
\* every other, as it was.
C35_UnauthorizedWritesNoRow ==
    [][\A p \in Procs :
          (/\ pc[p] # pc'[p] \/ res[p] # res'[p] \/ calls # calls'
           /\ pc'[p] = "done"
           /\ res'[p].op \in {"login", "refresh"}
           /\ res'[p].outcome = "Unauthorized")
          => \/ Free(p) /\ calls' = calls + 1 /\ rows' = rows
             \/ pc[p] = "done" /\ res'[p] = res[p]]_vars

\* A login with a wrong password and then a refreshToken have been refused
\* while rows are stored.
C35_Witness ==
    /\ rows # {}
    /\ \E username \in Usernames : wrongLogins[username] > 0
    /\ \E p \in Procs :
          pc[p] = "done" /\ res[p].op = "refresh" /\ res[p].outcome = "Unauthorized"

\* C36: a refresh token issued for (accountId, d1) and for no other device,
\* presented to refreshToken with a deviceId d2 # d1, is answered Unauthorized
\* and leaves every row as it was, whether or not (accountId, d2) has a row.
C36_TokenBoundToDevice ==
    [][\A p \in Procs : \A e \in issued : \A d2 \in Devices :
          (/\ RefreshFind(p, e.token, d2)
           /\ d2 # e.deviceId
           /\ [token |-> e.token, deviceId |-> d2] \notin issued)
          => /\ pc'[p] = "done"
             /\ res'[p].outcome = "Unauthorized"
             /\ rows' = rows]_vars

\* C37: the hash stored for a pair is always of the refresh token most recently
\* returned for it, and a refreshToken call that presents that token, admitted
\* by the guard and with no other operation touching the pair's row meanwhile,
\* passes the row checks, finds the account and succeeds.
C37_LatestTokenRefreshes ==
    /\ [](\A r \in rows : \E e \in plain :
             /\ e[1] = r.id
             /\ e[2].sub = r.userId
             /\ [token |-> e[2], deviceId |-> r.deviceId] \in issued
             /\ BcryptCompare(e[2], r.tokenHash))
    /\ [][\A p \in Procs :
             /\ \A r \in rows : \A e \in plain :
                   (e[1] = r.id /\ RefreshFind(p, e[2], r.deviceId))
                   => pc'[p] = "ref_user"
             /\ RefreshLoadUser(p) => pc'[p] = "ref_update"
             /\ (RefreshUpdate(p) /\ req[p].tokenRecord \in rows)
                   => res'[p].outcome = "ok"]_vars

\* A login has answered, and then a refreshToken that presented the token the
\* login returned has answered with success.
C37_Witness ==
    /\ loggedIn # {}
    /\ \E p \in Procs : \E l \in loggedIn :
          /\ pc[p] = "done" /\ res[p].op = "refresh" /\ res[p].outcome = "ok"
          /\ <<l[1], l[2], l[3]>> \in rotatedOut

\* C38 as stated: after a register that failed Internal once its account was
\* created, a login with the same credentials goes past its checks and succeeds.
C38_OrphanLoginSucceeds ==
    [][\A p \in Procs : \A u \in Orphans : \A password \in Passwords :
          \A deviceId \in Devices :
          (/\ LoginFind(p, u.username, password, deviceId)
           /\ BcryptCompare(Password(password), u.password))
          => pc'[p] = "login_delete"]_vars

\* C38, amended: a register that fails in its token step answers Internal,
\* writes no row and leaves the account it created; no account is ever removed.
\* For an account left without a row, a register with its username fails with
\* Conflict and writes nothing, and a login with its credentials is not refused
\* as Unauthorized: it goes on to its writes when the JWT configuration can be
\* read, and otherwise ends with the error getJwtConfig throws. Its insert
\* succeeds unless another login for the pair has inserted first.
C38_OrphanAccountStays ==
    /\ [][\A u \in users : u \in users']_vars
    /\ [][\A p \in Procs :
             /\ (pc[p] = "reg_store" /\ pc'[p] = "done" /\ res'[p].outcome # "ok")
                   => /\ res'[p].outcome = "Internal"
                      /\ rows' = rows
                      /\ findById(users', req[p].userId) # {}
             /\ \A u \in Orphans : \A deviceId \in Devices :
                   /\ \A password \in RegisterPasswords :
                         RegisterCheck(p, u.username, password, deviceId)
                         => /\ pc'[p] = "done"
                            /\ res'[p].outcome = "Conflict"
                            /\ users' = users
                            /\ rows' = rows
                   /\ \A password \in Passwords :
                         (/\ LoginFind(p, u.username, password, deviceId)
                          /\ BcryptCompare(Password(password), u.password))
                         => IF getJwtConfig(config).error = NoError
                            THEN pc'[p] = "login_delete"
                            ELSE /\ pc'[p] = "done"
                                 /\ res'[p].outcome = getJwtConfig(config).error.type
                                 /\ res'[p].outcome # "Unauthorized"
             /\ (LoginCreate(p)
                    /\ ~UniqueViolation(rows, req[p].userId, req[p].deviceId))
                   => res'[p].outcome = "ok"]_vars

\* Two requests have run, both have answered and the second was a login that
\* found no row to replace; one account and one row exist: the register
\* before it created the account and failed in its token step.
C38_Witness ==
    /\ calls = 2
    /\ \A p \in Procs : Free(p)
    /\ FinishedWith("login", "ok", "first")
    /\ Cardinality(users) = 1
    /\ Cardinality(rows) = 1

C40_RowOutlivesToken ==
    held # NoHeld =>
        /\ held.token.exp - held.token.iat = held.refreshExpiresMs \div 1000
        /\ held.token.exp - held.token.iat <= held.refreshExpiresMs
        /\ held.refreshExpiresMs - (held.token.exp - held.token.iat) * 1000 < 1000
        /\ held.expiresAt = held.dateNow + held.refreshExpiresMs
        /\ held.expiresAt >= held.token.exp * 1000
        /\ held.stored >= held.token.exp

\* A token was issued under a lifetime that is no whole number of seconds, and
\* the column keeps exactly the second in which the token expires.
C40_Witness ==
    /\ held # NoHeld
    /\ held.refreshExpiresMs % 1000 # 0
    /\ held.expiresAt > held.token.exp * 1000
    /\ held.stored = held.token.exp

====
